---- MODULE Spec2Model ----
(***************************************************************************)
(* A model of gentup, the Gentoo Linux updater: the workflow of main()     *)
(* (src/src/main.rs), the process runner and failure policy                *)
(* (src/src/linux.rs), the package-manager steps and output classifiers    *)
(* (src/src/portage.rs) and the argument parser (src/src/args.rs).         *)
(*                                                                         *)
(* Text is modelled as Rust sees it: a string is a sequence of characters  *)
(* (one-character strings), and the string functions the code calls        *)
(* (split, split_whitespace, starts_with, contains, parse, the digit       *)
(* filter of stripchar) are computed character by character.               *)
(*                                                                         *)
(* The environment (files, the terminal, the outcome and the output of     *)
(* every subprocess) is chosen nondeterministically at the step that reads *)
(* it.  A run is one execution of main(): pc is the position in main(),    *)
(* cmds the subprocesses spawned so far, in order, with their outcomes.    *)
(***************************************************************************)
EXTENDS Integers, Sequences, FiniteSets, TLC

VARIABLES
    pc,               \* position of the run in main()
    exit_status,      \* Running, or the status the process ended with
    cmds,             \* the subprocesses spawned so far, oldest first
    files,            \* the files the run has created or written
    msgs,             \* the messages the run has printed (those the properties below name)
    distro,           \* the result of linux::check_distro
    running_config,   \* the Config loaded by Config::load
    arguments,        \* the switches set by the argument parser
    tree_age,         \* age in seconds of the metadata timestamp read by too_recent
    packages,         \* the list a loop of the run iterates over
    idx,              \* the number of entries of that list already handled
    pending_updates,  \* the boolean returned by get_pending_updates
    orphans,          \* the count returned by the depclean dry run
    kernels,          \* the kernel signal returned by the depclean dry run
    uname_id,         \* what linux::running_kernel returned
    consistent,       \* what the reverse-dependency dry run returned
    events,           \* environment conditions met so far (bounded by MaxEvents)
    env_user,         \* the USER variable of the environment the run started in
    absent,           \* the required tools whose binary did not exist when checked
    kernel_lines,     \* the digits of each kernel-package line the dry run printed
    rotational,       \* the queue/rotational attribute of the root device at the trim step
    fn_input,         \* the arguments of a function applied on its own
    fn_result         \* what that function returned

run_vars == <<env_user, absent, kernel_lines, rotational, pc, exit_status, cmds, files, msgs, distro, running_config, arguments,
          tree_age, packages, idx, pending_updates, orphans, kernels, uname_id,
          consistent, events>>

vars == <<run_vars, fn_input, fn_result>>

(***************************************************************************)
(* Bounds of the model.                                                    *)
(***************************************************************************)
\* At most MaxEvents of the optional environment conditions (an absent tool,
\* an outdated priority package, a missing optional package, a stale tree,
\* unread news, broken reverse dependencies, an unconfigured make.conf) are
\* met in one run.
MaxEvents == 1

(***************************************************************************)
(* Strings: sequences of characters.                                       *)
(***************************************************************************)
Digits == {"0", "1", "2", "3", "4", "5", "6", "7", "8", "9"}

\* char::is_numeric, on the characters of the model's alphabet.
IsNumeric(c) == c \in Digits

\* char::is_whitespace.
IsWhitespace(c) == c \in {" ", "\n", "\t"}

DigitValue(c) ==
    CASE c = "0" -> 0 [] c = "1" -> 1 [] c = "2" -> 2 [] c = "3" -> 3
      [] c = "4" -> 4 [] c = "5" -> 5 [] c = "6" -> 6 [] c = "7" -> 7
      [] c = "8" -> 8 [] c = "9" -> 9

\* str::starts_with.
StartsWith(s, p) ==
    /\ Len(s) >= Len(p)
    /\ \A i \in 1..Len(p) : s[i] = p[i]

\* str::contains, for a string pattern.
Contains(s, p) ==
    \E k \in 0..(Len(s) - Len(p)) : \A i \in 1..Len(p) : s[k + i] = p[i]

\* The position of the first character of s, at or after position from, that
\* satisfies sep; Len(s) + 1 when there is none.
FirstAt(s, from, IsSep(_)) ==
    IF \E i \in from..Len(s) : IsSep(s[i])
    THEN CHOOSE i \in from..Len(s) :
            IsSep(s[i]) /\ \A j \in from..(i - 1) : ~IsSep(s[j])
    ELSE Len(s) + 1

\* str::split(ch): the pieces between the occurrences of ch, empty pieces kept.
RECURSIVE SplitFrom(_, _, _)
SplitFrom(s, from, ch) ==
    LET IsCh(c) == c = ch
        p == FirstAt(s, from, IsCh)
    IN  IF p > Len(s)
        THEN << SubSeq(s, from, Len(s)) >>
        ELSE << SubSeq(s, from, p - 1) >> \o SplitFrom(s, p + 1, ch)

Split(s, ch) == SplitFrom(s, 1, ch)

\* str::split_whitespace: the maximal runs of non-whitespace characters.
RECURSIVE SplitWhitespaceFrom(_, _)
SplitWhitespaceFrom(s, from) ==
    LET NotWs(c) == ~IsWhitespace(c)
        b == FirstAt(s, from, NotWs)
        e == FirstAt(s, b, IsWhitespace)
    IN  IF b > Len(s)
        THEN << >>
        ELSE << SubSeq(s, b, e - 1) >> \o SplitWhitespaceFrom(s, e)

SplitWhitespace(s) == SplitWhitespaceFrom(s, 1)

\* str::trim.
RECURSIVE Trim(_)
Trim(s) ==
    IF s = << >> THEN s
    ELSE IF IsWhitespace(s[1]) THEN Trim(Tail(s))
    ELSE IF IsWhitespace(s[Len(s)]) THEN Trim(SubSeq(s, 1, Len(s) - 1))
    ELSE s

\* The value of a string of digits.
RECURSIVE DecimalValue(_)
DecimalValue(s) ==
    IF s = << >> THEN 0
    ELSE 10 * DecimalValue(SubSeq(s, 1, Len(s) - 1)) + DigitValue(s[Len(s)])

\* Strip the leading zeros of a string of digits.
RECURSIVE Significant(_)
Significant(s) ==
    IF s # << >> /\ s[1] = "0" THEN Significant(Tail(s)) ELSE s

\* a <= b for two strings of digits of the same length.
RECURSIVE DigitsLeq(_, _)
DigitsLeq(a, b) ==
    IF a = << >> THEN TRUE
    ELSE IF DigitValue(a[1]) < DigitValue(b[1]) THEN TRUE
    ELSE IF DigitValue(a[1]) > DigitValue(b[1]) THEN FALSE
    ELSE DigitsLeq(Tail(a), Tail(b))

\* Whether the number a string of digits writes is at most the number limit
\* writes (limit has no leading zero).
AtMost(s, limit) ==
    LET sig == Significant(s)
    IN  \/ Len(sig) < Len(limit)
        \/ Len(sig) = Len(limit) /\ DigitsLeq(sig, limit)

I32MaxDigits == <<"2", "1", "4", "7", "4", "8", "3", "6", "4", "7">>
I32MinDigits == <<"2", "1", "4", "7", "4", "8", "3", "6", "4", "8">>
U32MaxDigits == <<"4", "2", "9", "4", "9", "6", "7", "2", "9", "5">>

\* str::parse::<i32>: an optional sign and at least one digit, nothing else,
\* the value in range.  [ok |-> FALSE] is the Err the caller unwraps.
ParseI32(s) ==
    LET signed == s # << >> /\ s[1] \in {"+", "-"}
        neg    == signed /\ s[1] = "-"
        body   == IF signed THEN Tail(s) ELSE s
        wellformed == body # << >> /\ \A i \in 1..Len(body) : IsNumeric(body[i])
    IN  IF wellformed /\ AtMost(body, IF neg THEN I32MinDigits ELSE I32MaxDigits)
        THEN [ok |-> TRUE,
              val |-> IF neg THEN 0 - DecimalValue(body) ELSE DecimalValue(body)]
        ELSE [ok |-> FALSE, val |-> 0]

\* str::parse::<u32>: an optional '+' and at least one digit, the value in range.
ParseU32(s) ==
    LET signed == s # << >> /\ s[1] = "+"
        body   == IF signed THEN Tail(s) ELSE s
        wellformed == body # << >> /\ \A i \in 1..Len(body) : IsNumeric(body[i])
    IN  IF wellformed /\ AtMost(body, U32MaxDigits)
        THEN [ok |-> TRUE, val |-> DecimalValue(body)]
        ELSE [ok |-> FALSE, val |-> 0]

\* linux::stripchar: the numeric characters of a string, in order.
stripchar(devicename) == SelectSeq(devicename, IsNumeric)

(***************************************************************************)
(* linux.rs: the distribution check.                                       *)
(***************************************************************************)
\* BufRead::lines().next() of a file's text: nothing for an empty file, else
\* the text before the first line break.
FirstLine(text) ==
    IF text = << >> THEN [some |-> FALSE, line |-> << >>]
    ELSE [some |-> TRUE, line |-> Split(text, "\n")[1]]

\* check_distro with the comparison lost: whatever follows the first '=' is
\* accepted.
check_distro_accepts_any(os_release, required_distro) ==
    IF ~os_release.readable THEN [kind |-> "panic", val |-> << >>]
    ELSE LET firstline == FirstLine(os_release.text)
         IN  IF ~firstline.some THEN [kind |-> "panic", val |-> << >>]
             ELSE LET parts == Split(firstline.line, "=")
                  IN  IF Len(parts) < 2 THEN [kind |-> "panic", val |-> << >>]
                      ELSE [kind |-> "Ok", val |-> parts[2]]

\* linux::check_distro on the identity file: Ok(detected) or Err(message); a
\* panic when the file cannot be opened, is empty, or has no '=' on line one.
check_distro(os_release, required_distro) ==
    IF ~os_release.readable THEN [kind |-> "panic", val |-> << >>]
    ELSE LET firstline == FirstLine(os_release.text)
         IN  IF ~firstline.some THEN [kind |-> "panic", val |-> << >>]
             ELSE LET parts == Split(firstline.line, "=")
                  IN  IF Len(parts) < 2 THEN [kind |-> "panic", val |-> << >>]
                      ELSE IF required_distro = parts[2]
                           THEN [kind |-> "Ok", val |-> parts[2]]
                           ELSE [kind |-> "Err", val |-> parts[2]]

(***************************************************************************)
(* linux.rs: the process runner's results and the failure policy.          *)
(***************************************************************************)
\* OsCall: the three execution modes.
OsCall == {"Interactive", "Spinner", "Quiet"}

\* ShellOutResult without its captured text: Err (the program could not be
\* spawned) or Ok with the child's exit code.
SpawnErr == [res |-> "Err", code |-> 0]
Exited(code) == [res |-> "Ok", code |-> code]
ShellOutResults == {SpawnErr, Exited(0), Exited(1)}

\* exit_if_failed with the test of the exit status lost: only a command
\* that could not be spawned ends the process.
exit_if_failed_ignores_status(result) ==
    result.res # "Ok"

\* CouldFail::exit_if_failed: TRUE when it ends the process (with status 1),
\* FALSE when it returns the result to the caller.
exit_if_failed(result) ==
    IF result.res = "Ok"
    THEN result.code # 0
    ELSE TRUE

\* What the operating system can make of a command: it cannot be spawned,
\* it runs and exits with a code having written to stdout and stderr, or it
\* runs and is killed by a signal (it has no exit code then).
CouldNotSpawn == [kind |-> "spawn_failed", code |-> 0, stdout |-> << >>, stderr |-> << >>]
ExitedWith(code, stdout, stderr) ==
    [kind |-> "exited", code |-> code, stdout |-> stdout, stderr |-> stderr]
Signaled == [kind |-> "signaled", code |-> 0, stdout |-> << >>, stderr |-> << >>]

ExecPanic == [kind |-> "panic", text |-> << >>, code |-> 0]

\* execute with a non-zero exit code turned into Err.
execute_nonzero_is_err(mode, command_line, outcome) ==
    IF SplitWhitespace(command_line) = << >> THEN ExecPanic
    ELSE CASE outcome.kind = "spawn_failed" ->
                [kind |-> "Err", text |-> << >>, code |-> 0]
           [] outcome.kind = "exited" ->
                IF outcome.code # 0
                THEN [kind |-> "Err", text |-> << >>, code |-> 0]
                ELSE [kind |-> "Ok",
                      text |-> IF mode = "Interactive" THEN << >> ELSE outcome.stdout,
                      code |-> outcome.code]
           [] outcome.kind = "signaled" -> ExecPanic

\* OsCall::execute: the command line is split into words (indexing the
\* first word panics when there is none); stdout is piped in the Spinner
\* and Quiet modes (stderr too in Quiet, but it is not returned) and
\* inherited in Interactive, where nothing is captured; a spawn error is
\* Err, an exit is Ok with the captured stdout and the code, and a child
\* without an exit code panics (code().unwrap()).
execute(mode, command_line, outcome) ==
    IF SplitWhitespace(command_line) = << >> THEN ExecPanic
    ELSE CASE outcome.kind = "spawn_failed" ->
                [kind |-> "Err", text |-> << >>, code |-> 0]
           [] outcome.kind = "exited" ->
                [kind |-> "Ok",
                 text |-> IF mode = "Interactive" THEN << >> ELSE outcome.stdout,
                 code |-> outcome.code]
           [] outcome.kind = "signaled" -> ExecPanic

\* One entry of cmds: the command line (a fixed part and the package or
\* path that ends it), the mode, the outcome, and whether the call site
\* passed the result through exit_if_failed.
Call(cmd, arg, mode, result, checked) ==
    [cmd |-> cmd, arg |-> arg, mode |-> mode, res |-> result.res,
     code |-> result.code, checked |-> checked]

(***************************************************************************)
(* args.rs: the argument parser, on the options main() declares.           *)
(***************************************************************************)
L_background == <<"b", "a", "c", "k", "g", "r", "o", "u", "n", "d">>
L_cleanup    == <<"c", "l", "e", "a", "n", "u", "p">>
L_force      == <<"f", "o", "r", "c", "e">>
L_help       == <<"h", "e", "l", "p">>
L_optional   == <<"o", "p", "t", "i", "o", "n", "a", "l">>
L_setup      == <<"s", "e", "t", "u", "p">>
L_trim       == <<"t", "r", "i", "m">>
L_version    == <<"v", "e", "r", "s", "i", "o", "n">>

\* arg_syntax: the short and long names of the valid options, in order.
arg_syntax ==
    << [short |-> <<"b">>, long |-> L_background],
       [short |-> <<"c">>, long |-> L_cleanup],
       [short |-> <<"f">>, long |-> L_force],
       [short |-> <<"h">>, long |-> L_help],
       [short |-> <<"o">>, long |-> L_optional],
       [short |-> <<"s">>, long |-> L_setup],
       [short |-> <<"t">>, long |-> L_trim],
       [short |-> <<"V">>, long |-> L_version] >>

\* ArgumentStruct::from: every switch starts false.
NoSwitches == [i \in 1..Len(arg_syntax) |-> FALSE]

\* str::replace('-', "").
StripDashes(s) ==
    LET NotDash(c) == c # "-" IN SelectSeq(s, NotDash)

\* Search::contains: the supplied text, dashes removed, is a short or a long name.
contains(supplied) ==
    \E i \in 1..Len(arg_syntax) :
        \/ arg_syntax[i].short = StripDashes(supplied)
        \/ arg_syntax[i].long = StripDashes(supplied)

\* Search::setflag: switch on every option whose short name is the character.
setflag(switches, flag) ==
    [i \in 1..Len(arg_syntax) |->
        IF arg_syntax[i].short[1] = flag THEN TRUE ELSE switches[i]]

\* Search::setflag_from_long: switch on every option whose long name is the
\* text with its dashes removed.
setflag_from_long(switches, flag) ==
    [i \in 1..Len(arg_syntax) |->
        IF arg_syntax[i].long = StripDashes(flag) THEN TRUE ELSE switches[i]]

\* Search::getflag: the switch of the option with this long name.
getflag(switches, flag) ==
    \E i \in 1..Len(arg_syntax) : arg_syntax[i].long = flag /\ switches[i]

\* The loop of parse over the characters of an argument without "--".
RECURSIVE ParseShorts(_, _)
ParseShorts(switches, chars) ==
    IF chars = << >> THEN [ok |-> TRUE, switches |-> switches, err |-> ""]
    ELSE IF chars[1] = "-" THEN ParseShorts(switches, Tail(chars))
    ELSE IF contains(<< chars[1] >>)
         THEN ParseShorts(setflag(switches, chars[1]), Tail(chars))
         ELSE [ok |-> FALSE, switches |-> switches, err |-> "usage"]

\* The loop of parse over the arguments that follow the program name.
RECURSIVE ParseArgs(_, _)
ParseArgs(switches, args) ==
    IF args = << >> THEN [ok |-> TRUE, switches |-> switches, err |-> ""]
    ELSE LET supplied == args[1]
         IN  IF supplied \in {<<"-", "h">>, <<"-", "-", "h", "e", "l", "p">>}
             THEN [ok |-> FALSE, switches |-> switches, err |-> "help"]
             ELSE IF supplied \in {<<"-", "V">>, <<"-", "-", "v", "e", "r", "s", "i", "o", "n">>}
             THEN [ok |-> FALSE, switches |-> switches, err |-> "version"]
             ELSE IF Contains(supplied, <<"-", "-">>)
             THEN IF contains(supplied)
                  THEN ParseArgs(setflag_from_long(switches, supplied), Tail(args))
                  ELSE [ok |-> FALSE, switches |-> switches, err |-> "usage"]
             ELSE LET shorts == ParseShorts(switches, supplied)
                  IN  IF shorts.ok
                      THEN ParseArgs(shorts.switches, Tail(args))
                      ELSE shorts

\* env::var("USER"): unset, or the account's name.
NoUser == [set |-> FALSE, val |-> << >>]
User(name) == [set |-> TRUE, val |-> name]

\* Search::parse: Err unless USER is "root"; then the switches set by the
\* arguments that follow the program name, or Err(help, version or usage).
parse(user, args) ==
    IF ~user.set \/ user.val # <<"r", "o", "o", "t">>
    THEN [ok |-> FALSE, switches |-> NoSwitches, err |-> "root"]
    ELSE ParseArgs(NoSwitches, Tail(args))

(***************************************************************************)
(* portage.rs: the output classifiers.                                     *)
(***************************************************************************)
Lines(output) == Split(output, "\n")

\* The scan of PackageManager::depclean (DryRun) over the lines of the dry
\* run: kernels is overwritten by every kernel-package line; the first line
\* that starts with "Number to remove" ends the scan with the value of its
\* fourth word (a panic when that word is no i32) or 0 when it has fewer words.
RECURSIVE DepcleanScan(_, _, _)
DepcleanScan(lines, i, kernels_so_far) ==
    IF i > Len(lines)
    THEN [panic |-> FALSE, orphans |-> 0, kernels |-> << >>]
    ELSE LET line == lines[i]
             kernels_now ==
                 IF \/ Contains(line, <<"g", "e", "n", "t", "o", "o", "-", "k", "e", "r", "n", "e", "l">>)
                    \/ Contains(line, <<"g", "e", "n", "t", "o", "o", "-", "s", "o", "u", "r", "c", "e", "s">>)
                 THEN stripchar(line)
                 ELSE kernels_so_far
         IN  IF StartsWith(line, <<"N", "u", "m", "b", "e", "r", " ", "t", "o", " ", "r", "e", "m", "o", "v", "e">>)
             THEN LET words == SplitWhitespace(line)
                  IN  IF Len(words) >= 4
                      THEN LET numdep == ParseI32(words[4])
                           IN  IF numdep.ok
                               THEN [panic |-> FALSE, orphans |-> numdep.val,
                                     kernels |-> kernels_now]
                               ELSE [panic |-> TRUE, orphans |-> 0,
                                     kernels |-> kernels_now]
                      ELSE [panic |-> FALSE, orphans |-> 0, kernels |-> kernels_now]
             ELSE DepcleanScan(lines, i + 1, kernels_now)

\* The digits (linux::stripchar) of every line of the dry run that names a
\* kernel package, in the order of the output.
KernelLines(output) ==
    LET names_kernel(line) ==
            \/ Contains(line, <<"g", "e", "n", "t", "o", "o", "-", "k", "e", "r", "n", "e", "l">>)
            \/ Contains(line, <<"g", "e", "n", "t", "o", "o", "-", "s", "o", "u", "r", "c", "e", "s">>)
        digits(line) == stripchar(line)
    IN  [k \in 1..Len(SelectSeq(Lines(output), names_kernel)) |->
            digits(SelectSeq(Lines(output), names_kernel)[k])]

\* The scan of depclean started at the second line.
depclean_classify_skips_first_line(output) == DepcleanScan(Lines(output), 2, << >>)

depclean_classify(output) == DepcleanScan(Lines(output), 1, << >>)

\* The scan of get_pending_updates: one token per line that starts with
\* "[ebuild": the first word after the first ']' (the empty string when no
\* word follows); the scan stops at such a line that has no ']'.
RECURSIVE PendingScan(_, _)
PendingScan(lines, i) ==
    IF i > Len(lines) THEN << >>
    ELSE IF StartsWith(lines[i], <<"[", "e", "b", "u", "i", "l", "d">>)
    THEN LET parts == Split(lines[i], "]")
         IN  IF Len(parts) >= 2
             THEN LET words == SplitWhitespace(parts[2])
                  IN  << IF words = << >> THEN << >> ELSE words[1] >>
                      \o PendingScan(lines, i + 1)
             ELSE << >>
    ELSE PendingScan(lines, i + 1)

\* The scan of get_pending_updates started at the second line.
pending_classify_skips_first_line(output) == PendingScan(Lines(output), 2)

pending_classify(output) == PendingScan(Lines(output), 1)

\* portage::shortname: the package name cut before the '-' that precedes the
\* first digit following a '-'; with no such digit the last character is
\* cut, and the empty name panics (0 - 1 as usize, then the slice).
shortname(packagename) ==
    LET Cut(j) == j >= 2 /\ IsNumeric(packagename[j]) /\ packagename[j - 1] = "-"
        position ==
            IF \E j \in 1..Len(packagename) : Cut(j)
            THEN (CHOOSE j \in 1..Len(packagename) :
                     Cut(j) /\ \A k \in 1..(j - 1) : ~Cut(k)) - 1
            ELSE Len(packagename)
    IN  IF position = 0
        THEN [panic |-> TRUE, val |-> << >>]
        ELSE [panic |-> FALSE, val |-> SubSeq(packagename, 1, position - 1)]

\* portage::package_list: "panic" when shortname panics on an entry (in
\* longest, before the terminal is asked), "exit" when the terminal size
\* cannot be read (termsize exits with status 1), else "ok".
package_list(plist, has_terminal) ==
    IF \E i \in 1..Len(plist) : shortname(plist[i]).panic THEN "panic"
    ELSE IF ~has_terminal THEN "exit"
    ELSE "ok"

\* The scan of revdep_rebuild looking at the first line only.
revdep_classify_first_line_only(output) ==
    StartsWith(output, <<"Y", "o", "u", "r", " ", "s", "y", "s", "t", "e", "m", " ", "i", "s", " ", "c", "o", "n", "s", "i", "s", "t", "e", "n", "t">>)

\* The scan of PackageManager::revdep_rebuild (DryRun): some line starts
\* with the marker.
revdep_classify(output) ==
    \E i \in 1..Len(Lines(output)) :
        StartsWith(Lines(output)[i], <<"Y", "o", "u", "r", " ", "s", "y", "s", "t", "e", "m", " ", "i", "s", " ", "c", "o", "n", "s", "i", "s", "t", "e", "n", "t">>)

\* The count of check_news parsed from the output as printed, not trimmed.
news_count_untrimmed(output) ==
    LET count == ParseU32(output)
    IN  IF count.ok THEN count.val ELSE 0

\* check_news: output.trim().parse().unwrap_or(0), as u32.
news_count(output) ==
    LET count == ParseU32(Trim(output))
    IN  IF count.ok THEN count.val ELSE 0

\* check_news: the news is read and mailed unless the count is 0.
news_to_read(count) == count # 0

\* too_recent with the day counted in minutes.
too_recent_in_minutes(age) == age < 24 * 60

\* portage::too_recent on the age of the metadata timestamp, in seconds.
too_recent(age) == age < 24 * 60 * 60

Examples ==
    /\ Split(<<"a", "=", "b", "=", "c">>, "=") = << <<"a">>, <<"b">>, <<"c">> >>
    /\ Split(<<"a", "=">>, "=") = << <<"a">>, << >> >>
    /\ Split(<< >>, "=") = << << >> >>
    /\ SplitWhitespace(<<" ", " ", "a", "b", " ", " ", "c", "\n">>) = << <<"a", "b">>, <<"c">> >>
    /\ SplitWhitespace(<<" ", " ">>) = << >>
    /\ Trim(<<" ", "1", "2", "\n">>) = <<"1", "2">>
    /\ ParseI32(<<"-", "1", "2">>).val = 0 - 12
    /\ ~ParseI32(<<"1", "x">>).ok /\ ~ParseI32(<< >>).ok /\ ~ParseI32(<<"9", "9", "9", "9", "9", "9", "9", "9", "9", "9", "9">>).ok
    /\ ParseI32(<<"2", "1", "4", "7", "4", "8", "3", "6", "4", "7">>).ok /\ ~ParseI32(<<"2", "1", "4", "7", "4", "8", "3", "6", "4", "8">>).ok
    /\ ParseI32(<<"0", "0", "0", "0", "0", "0", "0", "0", "0", "0", "0", "1", "2">>).val = 12
    /\ ~ParseU32(<<"-", "1">>).ok
    /\ stripchar(<<"6", ".", "6", ".", "2", "1", "-", "g", "e", "n", "t", "o", "o", "\n">>) = <<"6", "6", "2", "1">>
    /\ Contains(<<"s", "y", "s", "-", "k", "e", "r", "n", "e", "l", "/", "g", "e", "n", "t", "o", "o", "-", "k", "e", "r", "n", "e", "l", "-", "6">>, <<"g", "e", "n", "t", "o", "o", "-", "k", "e", "r", "n", "e", "l">>)
    /\ Contains(<<"a", "b", "c">>, << >>) /\ Contains(<< >>, << >>)
    /\ ~Contains(<<"a", "b">>, <<"a", "b", "c">>)
    /\ StartsWith(<<"[", "e", "b", "u", "i", "l", "d", " ", "x">>, <<"[", "e", "b", "u", "i", "l", "d">>)
    /\ check_distro([readable |-> TRUE, text |-> <<"N", "A", "M", "E", "=", "G", "e", "n", "t", "o", "o", "\n", "I", "D", "=", "g", "e", "n", "t", "o", "o", "\n">>], <<"G", "e", "n", "t", "o", "o">>).kind = "Ok"
    /\ check_distro([readable |-> TRUE, text |-> <<"N", "A", "M", "E", "=", "A", "r", "c", "h", "\n">>], <<"G", "e", "n", "t", "o", "o">>) = [kind |-> "Err", val |-> <<"A", "r", "c", "h">>]
    /\ check_distro([readable |-> TRUE, text |-> <<"N", "A", "M", "E", "\n">>], <<"G", "e", "n", "t", "o", "o">>).kind = "panic"
    /\ check_distro([readable |-> TRUE, text |-> << >>], <<"G", "e", "n", "t", "o", "o">>).kind = "panic"
    /\ parse(User(<<"r", "o", "o", "t">>), << <<"g", "e", "n", "t", "u", "p">>, <<"-", "c", "f">>, <<"-", "-", "t", "r", "i", "m">> >>).switches
         = << FALSE, TRUE, TRUE, FALSE, FALSE, FALSE, TRUE, FALSE >>
    /\ parse(User(<<"r", "o", "o", "t">>), << <<"g", "e", "n", "t", "u", "p">>, <<"-", "-", "f">> >>).switches = NoSwitches
    /\ parse(User(<<"r", "o", "o", "t">>), << <<"g", "e", "n", "t", "u", "p">>, <<"-", "-", "f">> >>).ok
    /\ parse(User(<<"r", "o", "o", "t">>), << <<"g", "e", "n", "t", "u", "p">>, <<"-", "x">> >>).err = "usage"
    /\ parse(User(<<"j", "o", "e">>), << <<"g", "e", "n", "t", "u", "p">> >>).err = "root"
    /\ depclean_classify(<<" ", "s", "y", "s", "-", "k", "e", "r", "n", "e", "l", "/", "g", "e", "n", "t", "o", "o", "-", "k", "e", "r", "n", "e", "l", "-", "6", ".", "6", ".", "2", "1", "\n", "N", "u", "m", "b", "e", "r", " ", "t", "o", " ", "r", "e", "m", "o", "v", "e", ":", " ", " ", " ", " ", " ", "3", "\n">>)
         = [panic |-> FALSE, orphans |-> 3, kernels |-> <<"6", "6", "2", "1">>]
    /\ depclean_classify(<<"N", "u", "m", "b", "e", "r", " ", "t", "o", " ", "r", "e", "m", "o", "v", "e", ":", " ", "x", "\n">>).panic
    /\ depclean_classify(<<"N", "u", "m", "b", "e", "r", " ", "t", "o", " ", "r", "e", "m", "o", "v", "e", "\n">>).orphans = 0
    /\ depclean_classify(<<"g", "e", "n", "t", "o", "o", "-", "s", "o", "u", "r", "c", "e", "s", "-", "6", "\n", "n", "o", "t", "h", "i", "n", "g", "\n">>) = [panic |-> FALSE, orphans |-> 0, kernels |-> << >>]
    /\ pending_classify(<<"x", "\n", "[", "e", "b", "u", "i", "l", "d", " ", " ", "U", " ", "]", " ", "a", "/", "b", "-", "1", ".", "2", " ", "[", "1", ".", "1", "]", "\n", "[", "e", "b", "u", "i", "l", "d", " ", "N", " ", "]", " ", "c", "/", "d", "-", "3", "\n">>) = << <<"a", "/", "b", "-", "1", ".", "2">>, <<"c", "/", "d", "-", "3">> >>
    /\ pending_classify(<<"[", "e", "b", "u", "i", "l", "d", " ", " ", "U", " ", "]", " ", "\n", "[", "e", "b", "u", "i", "l", "d", "\n", "[", "e", "b", "u", "i", "l", "d", " ", "N", " ", "]", " ", "c", "/", "d", "-", "3", "\n">>) = << << >> >>
    /\ shortname(<<"a", "/", "k", "u", "b", "e", "-", "s", "-", "1", ".", "2", "9", ":", ":", "g">>).val = <<"a", "/", "k", "u", "b", "e", "-", "s">>
    /\ shortname(<<"a", "b", "c">>).val = <<"a", "b">>
    /\ shortname(<< >>).panic
    /\ revdep_classify(<<"p", "r", "e", "\n", "Y", "o", "u", "r", " ", "s", "y", "s", "t", "e", "m", " ", "i", "s", " ", "c", "o", "n", "s", "i", "s", "t", "e", "n", "t", "\n">>)
    /\ ~revdep_classify(<<" ", "Y", "o", "u", "r", " ", "s", "y", "s", "t", "e", "m", " ", "i", "s", " ", "c", "o", "n", "s", "i", "s", "t", "e", "n", "t", "\n">>)
    /\ news_count(<<" ", "3", "\n">>) = 3 /\ news_count(<<"x">>) = 0
    /\ too_recent(86399) /\ ~too_recent(86400)

(***************************************************************************)
(* The environment the model draws from.                                   *)
(***************************************************************************)
CONFIG_FILE_PATH  == <<"/", "e", "t", "c", "/", "c", "o", "n", "f", ".", "d", "/", "g", "e", "n", "t", "u", "p">>
PACKAGE_FILE_PATH == <<"/", "e", "t", "c", "/", "d", "e", "f", "a", "u", "l", "t", "/", "g", "e", "n", "t", "u", "p">>
MAKE_CONF_PATH    == <<"/", "e", "t", "c", "/", "p", "o", "r", "t", "a", "g", "e", "/", "m", "a", "k", "e", ".", "c", "o", "n", "f">>

Unreadable == [readable |-> FALSE, text |-> << >>]
File(text) == [readable |-> TRUE, text |-> text]

\* /sys/dev/block/<major>:0/queue/rotational of the root device: unreadable,
\* a solid-state device, a spinning disk.
RotationalFiles == { Unreadable, File(<<"0", "\n">>), File(<<"1", "\n">>) }

\* rotational::is_rotational: 1 unless the attribute can be read, else the
\* i32 it holds (a panic when it holds none).
is_rotational(attribute) ==
    IF attribute.readable
    THEN LET hdd == ParseI32(Trim(attribute.text))
         IN  [panic |-> ~hdd.ok, val |-> hdd.val]
    ELSE [panic |-> FALSE, val |-> 1]

\* /etc/os-release: unreadable, empty, without '=', Gentoo, another
\* distribution, and a first line with two '='.
OsReleaseFiles ==
    { Unreadable, File(<< >>), File(<<"N", "A", "M", "E", "\n">>),
      File(<<"N", "A", "M", "E", "=", "G", "e", "n", "t", "o", "o", "\n", "I", "D", "=", "g", "e", "n", "t", "o", "o", "\n">>), File(<<"N", "A", "M", "E", "=", "A", "r", "c", "h", "\n">>),
      File(<<"N", "A", "M", "E", "=", "G", "e", "n", "t", "o", "o", "=", "x", "\n">>) }

\* The values of USER.
Users == { NoUser, User(<<"r", "o", "o", "t">>), User(<<"j", "o", "e">>) }

\* The command lines (env::args, program name first).
ArgvSamples ==
    { << <<"g", "e", "n", "t", "u", "p">> >>,
      << <<"g", "e", "n", "t", "u", "p">>, <<"-", "c">> >>,
      << <<"g", "e", "n", "t", "u", "p">>, <<"-", "f">> >>,
      << <<"g", "e", "n", "t", "u", "p">>, <<"-", "b">> >>,
      << <<"g", "e", "n", "t", "u", "p">>, <<"-", "o">> >>,
      << <<"g", "e", "n", "t", "u", "p">>, <<"-", "s">> >>,
      << <<"g", "e", "n", "t", "u", "p">>, <<"-", "c", "f">> >>,
      << <<"g", "e", "n", "t", "u", "p">>, <<"-", "-", "c", "l", "e", "a", "n", "u", "p">>, <<"-", "-", "t", "r", "i", "m">> >>,
      << <<"g", "e", "n", "t", "u", "p">>, <<"-", "-", "f">> >>,
      << <<"g", "e", "n", "t", "u", "p">>, <<"-", "x">> >>,
      << <<"g", "e", "n", "t", "u", "p">>, <<"-", "-", "h", "e", "l", "p">> >> }

\* The Config values a configuration file can load to.
Config(cleanup, trim, background) ==
    [cleanup_default |-> cleanup, trim_default |-> trim,
     background_default |-> background]

ConfigSamples ==
    { Config(FALSE, FALSE, FALSE), Config(TRUE, FALSE, FALSE),
      Config(TRUE, TRUE, FALSE), Config(FALSE, FALSE, TRUE) }

\* Ages of /var/db/repos/gentoo/metadata/timestamp, in seconds.
AgeSamples == {86340, 86399, 86400, 86401, 86460}

\* Outcomes of `emerge -puDv @world` with the text captured.
PendingRuns ==
    { [result |-> SpawnErr, output |-> << >>],
      [result |-> Exited(0), output |-> << >>],
      [result |-> Exited(1), output |-> <<"[", "e", "b", "u", "i", "l", "d", " ", "U", " ", "]", " ", "a", "/", "b", "-", "1", " ", "[", "0", "]", "\n">>],
      [result |-> Exited(0), output |-> <<"[", "e", "b", "u", "i", "l", "d", " ", "U", " ", "]", " ", "a", "/", "b", "-", "1", " ", "[", "0", "]", "\n">>],
      [result |-> Exited(0), output |-> <<"x", "\n", "[", "e", "b", "u", "i", "l", "d", " ", "U", " ", "]", " ", "a", "/", "b", "-", "1", " ", "[", "0", "]", "\n", "[", "e", "b", "u", "i", "l", "d", " ", "N", " ", "]", " ", "c", "/", "d", "-", "2", "\n">>],
      [result |-> Exited(0), output |-> <<"[", "e", "b", "u", "i", "l", "d", "\n", "[", "e", "b", "u", "i", "l", "d", " ", "N", " ", "]", " ", "c", "/", "d", "-", "2", "\n">>],
      [result |-> Exited(0), output |-> <<"[", "e", "b", "u", "i", "l", "d", " ", "N", " ", "]", " ", "\n">>] }

\* Texts `emerge -p --depclean` can print.
DepcleanOutputs ==
    { << >>,
      <<"N", "u", "m", "b", "e", "r", " ", "t", "o", " ", "r", "e", "m", "o", "v", "e", ":", " ", "0", "\n">>,
      <<" ", "k", "/", "g", "e", "n", "t", "o", "o", "-", "k", "e", "r", "n", "e", "l", "-", "6", ".", "1", "\n", "N", "u", "m", "b", "e", "r", " ", "t", "o", " ", "r", "e", "m", "o", "v", "e", ":", " ", "3", "\n">>,
      <<" ", "a", "/", "b", "-", "1", ".", "2", "\n", "N", "u", "m", "b", "e", "r", " ", "t", "o", " ", "r", "e", "m", "o", "v", "e", ":", " ", "1", "\n">>,
      <<" ", "k", "/", "g", "e", "n", "t", "o", "o", "-", "k", "e", "r", "n", "e", "l", "-", "6", ".", "1", "\n", " ", "k", "/", "g", "e", "n", "t", "o", "o", "-", "s", "o", "u", "r", "c", "e", "s", "-", "6", ".", "0", "\n", "N", "u", "m", "b", "e", "r", " ", "t", "o", " ", "r", "e", "m", "o", "v", "e", ":", " ", "2", "\n">>,
      <<"N", "u", "m", "b", "e", "r", " ", "t", "o", " ", "r", "e", "m", "o", "v", "e", ":", " ", "x", "\n">>,
      <<"N", "u", "m", "b", "e", "r", " ", "t", "o", " ", "r", "e", "m", "o", "v", "e", "\n">> }

\* Outcomes of `uname -r` with the text captured.
UnameRuns ==
    { [result |-> SpawnErr, output |-> << >>],
      [result |-> Exited(0), output |-> <<"6", ".", "1", "-", "g", "e", "n", "t", "o", "o", "\n">>],
      [result |-> Exited(0), output |-> <<"g", "e", "n", "e", "r", "i", "c", "\n">>] }

\* Texts `revdep-rebuild -ip` can print.
RevdepOutputs ==
    { <<"p", "r", "e", "\n", "Y", "o", "u", "r", " ", "s", "y", "s", "t", "e", "m", " ", "i", "s", " ", "c", "o", "n", "s", "i", "s", "t", "e", "n", "t", "\n">>, <<"b", "r", "o", "k", "e", "n", " ", "a", "/", "b", "\n">> }

\* Texts `eselect news count new` can print.
NewsOutputs == { <<"0", "\n">>, <<"2", "\n">>, <<"x">> }

\* The operator's answers to Prompt::askuser, as read_line returns them.
Answers == { <<"y", "\n">>, <<"n", "\n">>, <<"q", "\n">>, <<"s", "\n">> }

\* Contents of the optional package list file when it exists.
PackageFiles == { File(<< >>), File(<<"a", "p", "p", "-", "m", "i", "s", "c", "/", "t", "m", "u", "x", "\n">>), Unreadable }

(***************************************************************************)
(* The run of main().                                                      *)
(***************************************************************************)
Running == 0 - 1

NoConfig == Config(FALSE, FALSE, FALSE)

\* The cleanup test that reads the command line only.
cleanup_requested_flag_only ==
    getflag(arguments, L_cleanup)

\* The conditions main() tests on the switches and the loaded Config.
cleanup_requested ==
    getflag(arguments, L_cleanup) \/ running_config.cleanup_default
trim_requested ==
    getflag(arguments, L_trim) \/ running_config.trim_default
background_fetch ==
    getflag(arguments, L_background) \/ running_config.background_default

\* process::exit(code), a panic (status 101), or main() returning (status 0).
Terminate(code) == pc' = "exited" /\ exit_status' = code
Goto(step) == pc' = step /\ exit_status' = exit_status
Panic == Terminate(101)

\* An environment condition counted against MaxEvents.
MayMeet(is_event) == is_event => events < MaxEvents
Meet(is_event) == events' = IF is_event THEN events + 1 ELSE events

\* The state main() starts in.
RunInit ==
    /\ env_user \in Users
    /\ pc = "check_distro"
    /\ exit_status = Running
    /\ cmds = << >>
    /\ files = {}
    /\ msgs = {}
    /\ distro = [kind |-> "none", val |-> << >>]
    /\ running_config = NoConfig
    /\ arguments = NoSwitches
    /\ tree_age = 0 - 1
    /\ packages = << >>
    /\ idx = 0
    /\ pending_updates = FALSE
    /\ orphans = 0
    /\ kernels = << >>
    /\ uname_id = << >>
    /\ consistent = FALSE
    /\ events = 0
    /\ absent = {}
    /\ kernel_lines = << >>
    /\ rotational = Unreadable

\* No function is applied on its own during a run.
NoInput == [fn |-> "none"]
NoResult == [done |-> FALSE]

Init ==
    /\ RunInit
    /\ fn_input = NoInput
    /\ fn_result = NoResult

\* main(), the distribution check: exit 1 when it is not Gentoo.
CheckDistro ==
    /\ pc = "check_distro"
    /\ \E os_release \in OsReleaseFiles :
        LET checked == check_distro(os_release, <<"G", "e", "n", "t", "o", "o">>)
        IN  /\ distro' = checked
            /\ CASE checked.kind = "panic" -> Panic
                 [] checked.kind = "Err" -> Terminate(1)
                 [] checked.kind = "Ok" -> Goto("load_config")
    /\ UNCHANGED <<fn_input, fn_result, env_user, absent, kernel_lines, rotational, cmds, files, msgs, running_config, arguments, tree_age,
                   packages, idx, pending_updates, orphans, kernels, uname_id,
                   consistent, events>>

\* config::setup: the ways one interactive setup can go.  Each is what it
\* spawned, what it wrote, and how it ended: "return", or the status it
\* exited with.  save_ok is whether the configuration file, when absent,
\* could be created (when present: could be read).
SetupRun(config_exists, save_ok, a1, r1, a2, r2, a3) ==
    LET written == IF config_exists THEN {} ELSE {CONFIG_FILE_PATH}
        edit1 == IF a1 = <<"y", "\n">>
                 THEN << Call("vi ", CONFIG_FILE_PATH, "Interactive", r1, FALSE) >>
                 ELSE << >>
        edit2 == IF a2 = <<"y", "\n">>
                 THEN << Call("vi ", PACKAGE_FILE_PATH, "Interactive", r2, FALSE) >>
                 ELSE << >>
    IN  IF ~save_ok
        THEN [spawned |-> << >>, written |-> {}, mail |-> FALSE, end |-> "exit1"]
        ELSE IF a1 = <<"q", "\n">>
        THEN [spawned |-> << >>, written |-> written, mail |-> FALSE, end |-> "exit0"]
        ELSE IF a2 = <<"q", "\n">>
        THEN [spawned |-> edit1, written |-> written, mail |-> FALSE, end |-> "exit0"]
        ELSE IF a3 = <<"q", "\n">>
        THEN [spawned |-> edit1 \o edit2, written |-> written, mail |-> FALSE,
              end |-> "exit0"]
        ELSE [spawned |-> edit1 \o edit2, written |-> written,
              mail |-> a3 = <<"y", "\n">>, end |-> "return"]

SetupRuns(config_exists) ==
    { SetupRun(config_exists, save_ok, a1, r1, a2, r2, a3) :
        save_ok \in BOOLEAN, a1 \in Answers, a2 \in Answers, a3 \in Answers,
        r1 \in {SpawnErr, Exited(0)}, r2 \in {SpawnErr, Exited(0)} }

\* A call of config::setup followed by process::exit(code).
SetupThenExit(config_exists, code) ==
    \E run \in SetupRuns(config_exists) :
        /\ cmds' = cmds \o run.spawned
        /\ files' = files \cup run.written
        /\ msgs' = msgs \cup (IF run.mail THEN {"Setup email"} ELSE {})
        /\ Terminate(CASE run.end = "exit1" -> 1
                       [] run.end = "exit0" -> 0
                       [] run.end = "return" -> code)

\* main(), the configuration: load it, or set one up and exit 1.
LoadConfig ==
    /\ pc = "load_config"
    /\ \E config_exists \in BOOLEAN :
        IF config_exists
        THEN \E readable \in BOOLEAN :
                IF readable
                THEN /\ \E loaded \in ConfigSamples : running_config' = loaded
                     /\ Goto("parse_args")
                     /\ UNCHANGED <<cmds, files, msgs>>
                ELSE /\ Terminate(1)
                     /\ UNCHANGED <<cmds, files, msgs, running_config>>
        ELSE /\ SetupThenExit(FALSE, 1)
             /\ UNCHANGED running_config
    /\ UNCHANGED <<fn_input, fn_result, env_user, absent, kernel_lines, rotational, distro, arguments, tree_age, packages, idx, pending_updates,
                   orphans, kernels, uname_id, consistent, events>>

\* The list of check_and_install_deps with no command after the install of eix.
packages_to_check_without_post ==
    << [package |-> <<"a", "p", "p", "-", "p", "o", "r", "t", "a", "g", "e", "/", "e", "i", "x">>, post |-> ""],
       [package |-> <<"a", "p", "p", "-", "p", "o", "r", "t", "a", "g", "e", "/", "g", "e", "n", "t", "o", "o", "l", "k", "i", "t">>, post |-> ""],
       [package |-> <<"a", "p", "p", "-", "p", "o", "r", "t", "a", "g", "e", "/", "e", "l", "o", "g", "v">>, post |-> ""],
       [package |-> <<"a", "p", "p", "-", "a", "d", "m", "i", "n", "/", "e", "c", "l", "e", "a", "n", "-", "k", "e", "r", "n", "e", "l">>, post |-> ""] >>

\* portage::check_and_install_deps: package, the binary looked for, and the
\* command run after installing it.
packages_to_check ==
    << [package |-> <<"a", "p", "p", "-", "p", "o", "r", "t", "a", "g", "e", "/", "e", "i", "x">>, post |-> "eix-update"],
       [package |-> <<"a", "p", "p", "-", "p", "o", "r", "t", "a", "g", "e", "/", "g", "e", "n", "t", "o", "o", "l", "k", "i", "t">>, post |-> ""],
       [package |-> <<"a", "p", "p", "-", "p", "o", "r", "t", "a", "g", "e", "/", "e", "l", "o", "g", "v">>, post |-> ""],
       [package |-> <<"a", "p", "p", "-", "a", "d", "m", "i", "n", "/", "e", "c", "l", "e", "a", "n", "-", "k", "e", "r", "n", "e", "l">>, post |-> ""] >>

\* main(), the arguments: exit 1 when they do not parse; with --setup run
\* the setup and exit 0.
ParseArguments ==
    /\ pc = "parse_args"
    /\ \E argv \in ArgvSamples :
        LET parsed == parse(env_user, argv)
        IN  IF ~parsed.ok
            THEN /\ Terminate(1)
                 /\ UNCHANGED <<cmds, files, msgs, arguments>>
            ELSE /\ arguments' = parsed.switches
                 /\ IF getflag(parsed.switches, L_setup)
                    THEN SetupThenExit(TRUE, 0)
                    ELSE /\ Goto("deps")
                         /\ UNCHANGED <<cmds, files, msgs>>
    /\ UNCHANGED <<fn_input, fn_result, env_user, absent, kernel_lines, rotational, distro, running_config, tree_age, packages, idx,
                   pending_updates, orphans, kernels, uname_id, consistent, events>>

\* portage::check_and_install_deps, one turn of its loop: when the tool's
\* binary is absent, install the package and run its post-install command;
\* either failing is fatal.
InstallDependency ==
    /\ pc = "deps"
    /\ LET tool == packages_to_check[idx + 1]
           install(r) == Call("emerge --quiet -v ", tool.package, "Spinner", r, TRUE)
           post(r) == Call(tool.post, << >>, "Spinner", r, TRUE)
           next == IF idx + 1 = Len(packages_to_check) THEN "elogv" ELSE "deps"
       IN  \E present \in BOOLEAN :
            /\ MayMeet(~present)
            /\ Meet(~present)
            /\ absent' = IF present THEN absent ELSE absent \cup {tool.package}
            /\ IF present
               THEN /\ Goto(next)
                    /\ idx' = idx + 1
                    /\ UNCHANGED cmds
               ELSE \E r1 \in ShellOutResults :
                     IF exit_if_failed(r1)
                     THEN /\ cmds' = Append(cmds, install(r1))
                          /\ Terminate(1)
                          /\ UNCHANGED idx
                     ELSE IF tool.post = ""
                     THEN /\ cmds' = Append(cmds, install(r1))
                          /\ Goto(next)
                          /\ idx' = idx + 1
                     ELSE \E r2 \in ShellOutResults :
                           /\ cmds' = cmds \o << install(r1), post(r2) >>
                           /\ IF exit_if_failed(r2)
                              THEN Terminate(1) /\ UNCHANGED idx
                              ELSE Goto(next) /\ idx' = idx + 1
    /\ UNCHANGED <<fn_input, fn_result, env_user, kernel_lines, rotational, files, msgs, distro, running_config, arguments, tree_age,
                   packages, pending_updates, orphans, kernels, uname_id,
                   consistent>>

\* portage::configure_elogv: append the logging settings to make.conf when
\* it is readable and does not set PORTAGE_ELOG_SYSTEM; the append panics
\* when the file cannot be opened for writing.  Then main() turns to the
\* optional packages (with --optional) or to the sync.
ConfigureElogv ==
    /\ pc = "elogv"
    /\ \E makeconf \in {"unreadable", "configured", "unconfigured", "readonly"} :
        LET writes == makeconf \in {"unconfigured", "readonly"}
        IN  /\ MayMeet(writes)
            /\ Meet(writes)
            /\ IF makeconf = "readonly"
               THEN Panic /\ UNCHANGED files
               ELSE /\ files' = IF writes THEN files \cup {MAKE_CONF_PATH} ELSE files
                    /\ Goto(IF getflag(arguments, L_optional) THEN "optional" ELSE "sync")
    /\ UNCHANGED <<fn_input, fn_result, env_user, absent, kernel_lines, rotational, cmds, msgs, distro, running_config, arguments, tree_age,
                   packages, idx, pending_updates, orphans, kernels, uname_id,
                   consistent>>

\* The list check_and_install_optional_packages writes when the package
\* list file does not exist.
default_optional_packages ==
    << <<"a", "p", "p", "-", "p", "o", "r", "t", "a", "g", "e", "/", "c", "p", "u", "i", "d", "2", "c", "p", "u", "f", "l", "a", "g", "s">>, <<"a", "p", "p", "-", "p", "o", "r", "t", "a", "g", "e", "/", "p", "f", "l">>,
       <<"a", "p", "p", "-", "p", "o", "r", "t", "a", "g", "e", "/", "u", "f", "e", "d">>, <<"a", "p", "p", "-", "a", "d", "m", "i", "n", "/", "s", "y", "s", "s", "t", "a", "t">>, <<"a", "p", "p", "-", "e", "d", "i", "t", "o", "r", "s", "/", "v", "i", "m">>,
       <<"n", "e", "t", "-", "d", "n", "s", "/", "b", "i", "n", "d", "-", "t", "o", "o", "l", "s">>, <<"a", "p", "p", "-", "m", "i", "s", "c", "/", "t", "m", "u", "x">>,
       <<"n", "e", "t", "-", "m", "i", "s", "c", "/", "n", "e", "t", "k", "i", "t", "-", "t", "e", "l", "n", "e", "t", "d">>, <<"s", "y", "s", "-", "a", "p", "p", "s", "/", "m", "l", "o", "c", "a", "t", "e">>, <<"s", "y", "s", "-", "a", "p", "p", "s", "/", "i", "n", "x", "i">>,
       <<"s", "y", "s", "-", "a", "p", "p", "s", "/", "p", "c", "i", "u", "t", "i", "l", "s">>, <<"s", "y", "s", "-", "a", "p", "p", "s", "/", "u", "s", "b", "u", "t", "i", "l", "s">>, <<"s", "y", "s", "-", "p", "r", "o", "c", "e", "s", "s", "/", "n", "m", "o", "n">>,
       <<"d", "e", "v", "-", "l", "a", "n", "g", "/", "r", "u", "s", "t", "-", "b", "i", "n">>, <<"d", "e", "v", "-", "v", "c", "s", "/", "g", "i", "t">> >>

\* str::lines: the pieces between line breaks, without a last empty piece.
StrLines(text) ==
    LET pieces == Split(text, "\n")
    IN  IF pieces[Len(pieces)] = << >>
        THEN SubSeq(pieces, 1, Len(pieces) - 1)
        ELSE pieces

\* portage::check_and_install_optional_packages up to its loop: create the
\* package list file with the default list when it does not exist (a panic
\* when it cannot be created), then read the list (a panic when it cannot
\* be read).
ReadOptionalPackages ==
    /\ pc = "optional"
    /\ \E exists \in BOOLEAN :
        /\ MayMeet(~exists)
        /\ Meet(~exists)
        /\ IF exists
           THEN \E file \in PackageFiles :
                 /\ UNCHANGED files
                 /\ IF ~file.readable
                    THEN Panic /\ UNCHANGED <<packages, idx>>
                    ELSE /\ packages' = StrLines(file.text)
                         /\ idx' = 0
                         /\ Goto(IF StrLines(file.text) = << >>
                                 THEN "sync" ELSE "optional_check")
           ELSE \E created \in BOOLEAN :
                 IF created
                 THEN /\ files' = files \cup {PACKAGE_FILE_PATH}
                      /\ packages' = default_optional_packages
                      /\ idx' = 0
                      /\ Goto("optional_check")
                 ELSE Panic /\ UNCHANGED <<files, packages, idx>>
    /\ UNCHANGED <<fn_input, fn_result, env_user, absent, kernel_lines, rotational, cmds, msgs, distro, running_config, arguments, tree_age,
                   pending_updates, orphans, kernels, uname_id, consistent>>

\* portage::package_is_missing on the result of `equery l <package>`:
\* "exit" on a spawn error, else whether the exit code is not zero.
package_is_missing(result) ==
    CASE result.res = "Err" -> "exit"
      [] result.res = "Ok" /\ result.code # 0 -> "missing"
      [] result.res = "Ok" /\ result.code = 0 -> "installed"

\* check_and_install_optional_packages, one turn of its loop: install the
\* package when `equery l` says it is missing; a failing install is fatal.
InstallOptionalPackage ==
    /\ pc = "optional_check"
    /\ LET check == packages[idx + 1]
           query(r) == Call("equery l ", check, "Quiet", r, FALSE)
           install(r) ==
               Call("emerge --quiet --autounmask y --autounmask-write y -v ",
                    check, "Interactive", r, TRUE)
           next == IF idx + 1 = Len(packages) THEN "sync" ELSE "optional_check"
       IN  \E r1 \in ShellOutResults :
            LET missing == package_is_missing(r1)
            IN  /\ MayMeet(missing = "missing")
                /\ Meet(missing = "missing")
                /\ CASE missing = "exit" ->
                          /\ cmds' = Append(cmds, query(r1))
                          /\ Terminate(1)
                          /\ UNCHANGED idx
                     [] missing = "installed" ->
                          /\ cmds' = Append(cmds, query(r1))
                          /\ Goto(next)
                          /\ idx' = idx + 1
                     [] missing = "missing" ->
                          \E r2 \in ShellOutResults :
                            /\ cmds' = cmds \o << query(r1), install(r2) >>
                            /\ IF exit_if_failed(r2)
                               THEN Terminate(1) /\ UNCHANGED idx
                               ELSE Goto(next) /\ idx' = idx + 1
    /\ UNCHANGED <<fn_input, fn_result, env_user, absent, kernel_lines, rotational, files, msgs, distro, running_config, arguments, tree_age,
                   packages, pending_updates, orphans, kernels, uname_id,
                   consistent>>

\* The packages main() upgrades before all others, in order.
priority_packages == << <<"s", "y", "s", "-", "a", "p", "p", "s", "/", "p", "o", "r", "t", "a", "g", "e">>, <<"s", "y", "s", "-", "d", "e", "v", "e", "l", "/", "g", "c", "c">> >>

\* main(), the sync: with --force, or when too_recent says no, run
\* portage::sync_package_tree (fatal on failure).  too_recent panics when
\* the timestamp file has no metadata; with --force it is not called.
SyncPackageTree ==
    /\ pc = "sync"
    /\ LET sync(r) == Call("eix-sync", << >>, "Spinner", r, TRUE)
           Synced ==
               \E r \in ShellOutResults :
                 /\ cmds' = Append(cmds, sync(r))
                 /\ IF exit_if_failed(r) THEN Terminate(1) ELSE Goto("priority")
       IN  IF getflag(arguments, L_force)
           THEN Synced /\ UNCHANGED <<tree_age, events>>
           ELSE \E has_metadata \in BOOLEAN :
                 IF ~has_metadata
                 THEN Panic /\ UNCHANGED <<cmds, tree_age, events>>
                 ELSE \E age \in AgeSamples :
                       /\ MayMeet(~too_recent(age))
                       /\ Meet(~too_recent(age))
                       /\ tree_age' = age
                       /\ IF too_recent(age)
                          THEN Goto("priority") /\ UNCHANGED cmds
                          ELSE Synced
    /\ idx' = 0
    /\ UNCHANGED <<fn_input, fn_result, env_user, absent, kernel_lines, rotational, files, msgs, distro, running_config, arguments, packages,
                   pending_updates, orphans, kernels, uname_id, consistent>>

\* package_outdated with the test of the exit status inverted.
package_outdated_inverted(result) ==
    CASE result.res = "Err" -> "exit"
      [] result.res = "Ok" /\ result.code = 0 -> "current"
      [] result.res = "Ok" /\ result.code # 0 -> "outdated"

\* portage::package_outdated on the result of `eix -u <package>`: "exit" on
\* a spawn error, else whether the exit code is zero.
package_outdated(result) ==
    CASE result.res = "Err" -> "exit"
      [] result.res = "Ok" /\ result.code # 0 -> "current"
      [] result.res = "Ok" /\ result.code = 0 -> "outdated"

\* main(), one of the two priority packages: upgrade it when it is
\* outdated; a failing upgrade is fatal.
UpgradePriorityPackage ==
    /\ pc = "priority"
    /\ LET package == priority_packages[idx + 1]
           query(r) == Call("eix -u ", package, "Quiet", r, FALSE)
           upgrade(r) == Call("emerge --quiet -1v ", package, "Interactive", r, TRUE)
           next == IF idx + 1 = Len(priority_packages) THEN "pending" ELSE "priority"
       IN  \E r1 \in ShellOutResults :
            LET outdated == package_outdated(r1)
            IN  /\ MayMeet(outdated = "outdated")
                /\ Meet(outdated = "outdated")
                /\ CASE outdated = "exit" ->
                          /\ cmds' = Append(cmds, query(r1))
                          /\ Terminate(1)
                          /\ UNCHANGED idx
                     [] outdated = "current" ->
                          /\ cmds' = Append(cmds, query(r1))
                          /\ Goto(next)
                          /\ idx' = idx + 1
                     [] outdated = "outdated" ->
                          \E r2 \in ShellOutResults :
                            /\ cmds' = cmds \o << query(r1), upgrade(r2) >>
                            /\ IF exit_if_failed(r2)
                               THEN Terminate(1) /\ UNCHANGED idx
                               ELSE Goto(next) /\ idx' = idx + 1
    /\ UNCHANGED <<fn_input, fn_result, env_user, absent, kernel_lines, rotational, files, msgs, distro, running_config, arguments, tree_age,
                   packages, pending_updates, orphans, kernels, uname_id,
                   consistent>>

\* The exit test with the negation of pending_updates lost.
nothing_to_do_when_pending(pending) ==
    pending /\ (~getflag(arguments, L_cleanup) /\ ~running_config.cleanup_default)

\* The exit test with --force consulted as well.
nothing_to_do_unless_forced(pending) ==
    /\ ~pending
    /\ ~getflag(arguments, L_cleanup) /\ ~running_config.cleanup_default
    /\ ~getflag(arguments, L_force)

\* main(), the test after get_pending_updates: quit when nothing is pending
\* unless a cleanup was asked for.
nothing_to_do(pending) ==
    ~pending /\ (~getflag(arguments, L_cleanup) /\ ~running_config.cleanup_default)

\* main() once get_pending_updates has returned: exit 0, or go on to the news.
AfterPendingUpdates(pending) ==
    /\ pending_updates' = pending
    /\ IF nothing_to_do(pending) THEN Terminate(0) ELSE Goto("news")

\* portage::get_pending_updates up to fetch_sources: the @world dry run
\* (its exit code is not looked at), the classification, the package
\* listing; a spawn error counts as nothing pending.
GetPendingUpdates ==
    /\ pc = "pending"
    /\ \E run \in PendingRuns, has_terminal \in BOOLEAN :
        LET dryrun == Call("emerge -puDv @world", << >>, "Spinner", run.result, FALSE)
            pending == pending_classify(run.output)
            listed == package_list(pending, has_terminal)
        IN  /\ cmds' = Append(cmds, dryrun)
            /\ IF run.result.res = "Err"
               THEN /\ msgs' = msgs \cup {"Error calling emerge"}
                    /\ AfterPendingUpdates(FALSE)
                    /\ UNCHANGED <<packages, idx>>
               ELSE IF Len(pending) = 0
               THEN /\ msgs' = msgs \cup {"There are no pending updates"}
                    /\ AfterPendingUpdates(FALSE)
                    /\ UNCHANGED <<packages, idx>>
               ELSE /\ UNCHANGED msgs
                    /\ CASE listed = "panic" ->
                              Panic /\ UNCHANGED <<packages, idx, pending_updates>>
                         [] listed = "exit" ->
                              Terminate(1) /\ UNCHANGED <<packages, idx, pending_updates>>
                         [] listed = "ok" /\ background_fetch ->
                              AfterPendingUpdates(TRUE) /\ UNCHANGED <<packages, idx>>
                         [] listed = "ok" /\ ~background_fetch ->
                              /\ packages' = pending
                              /\ idx' = 0
                              /\ Goto("fetch")
                              /\ UNCHANGED pending_updates
    /\ UNCHANGED <<fn_input, fn_result, env_user, absent, kernel_lines, rotational, files, distro, running_config, arguments, tree_age, orphans,
                   kernels, uname_id, consistent, events>>

\* fetch_sources: the command line, which the package name ends.
FetchCommand == "emerge --fetchonly --nodeps ="

\* fetch_sources walking the list from its end.
FetchSources_from_the_end ==
    /\ pc = "fetch"
    /\ \E r \in ShellOutResults :
        /\ cmds' = Append(cmds, Call("emerge --fetchonly --nodeps =",
                                     packages[Len(packages) - idx], "Quiet", r, TRUE))
        /\ IF exit_if_failed(r)
           THEN Terminate(1) /\ UNCHANGED <<idx, pending_updates>>
           ELSE /\ idx' = idx + 1
                /\ IF idx + 1 = Len(packages)
                   THEN AfterPendingUpdates(TRUE)
                   ELSE Goto("fetch") /\ UNCHANGED pending_updates
    /\ UNCHANGED <<fn_input, fn_result, env_user, absent, kernel_lines, rotational, files, msgs, distro, running_config, arguments, tree_age,
                   packages, orphans, kernels, uname_id, consistent, events>>

\* portage::fetch_sources, one turn of its loop: fetch the sources of the
\* next pending package (fatal on failure); after the last one
\* get_pending_updates returns true.
FetchSources ==
    /\ pc = "fetch"
    /\ \E r \in ShellOutResults :
        /\ cmds' = Append(cmds, Call(FetchCommand,
                                     packages[idx + 1], "Quiet", r, TRUE))
        /\ IF exit_if_failed(r)
           THEN Terminate(1) /\ UNCHANGED <<idx, pending_updates>>
           ELSE /\ idx' = idx + 1
                /\ IF idx + 1 = Len(packages)
                   THEN AfterPendingUpdates(TRUE)
                   ELSE Goto("fetch") /\ UNCHANGED pending_updates
    /\ UNCHANGED <<fn_input, fn_result, env_user, absent, kernel_lines, rotational, files, msgs, distro, running_config, arguments, tree_age,
                   packages, orphans, kernels, uname_id, consistent, events>>

\* portage::check_news: count the unread news (fatal on failure); when
\* there are some, read them and mail them; the read's failure is ignored.
CheckNews ==
    /\ pc = "news"
    /\ \E r1 \in ShellOutResults, output \in NewsOutputs :
        LET count == Call("eselect news count new", << >>, "Quiet", r1, TRUE)
            unread == news_to_read(news_count(output))
        IN  IF exit_if_failed(r1)
            THEN /\ cmds' = Append(cmds, count)
                 /\ Terminate(1)
                 /\ UNCHANGED <<msgs, events>>
            ELSE /\ MayMeet(unread)
                 /\ Meet(unread)
                 /\ Goto("upgrade")
                 /\ IF ~unread
                    THEN /\ cmds' = Append(cmds, count)
                         /\ msgs' = msgs \cup {"No unread news"}
                    ELSE \E r2 \in ShellOutResults :
                          /\ cmds' = cmds \o << count,
                                Call("eselect news read", << >>, "Quiet", r2, FALSE) >>
                          /\ msgs' = IF r2.res = "Ok"
                                     THEN msgs \cup {"News sent by email"}
                                     ELSE msgs
    /\ UNCHANGED <<fn_input, fn_result, env_user, absent, kernel_lines, rotational, files, distro, running_config, arguments, tree_age, packages,
                   idx, pending_updates, orphans, kernels, uname_id, consistent>>

\* A step that runs one command and drops the result.
MustSucceed_result_dropped(cmd, mode, next) ==
    \E r \in ShellOutResults :
        /\ cmds' = Append(cmds, Call(cmd, << >>, mode, r, TRUE))
        /\ Goto(next)

\* A step of main() that runs one command and passes the result through
\* exit_if_failed.
MustSucceed(cmd, mode, next) ==
    \E r \in ShellOutResults :
        /\ cmds' = Append(cmds, Call(cmd, << >>, mode, r, TRUE))
        /\ IF exit_if_failed(r) THEN Terminate(1) ELSE Goto(next)

\* PackageManager::NoDryRun.update_all_packages: the command line.
WorldUpgradeCommand ==
    "emerge --quiet-build y -uNDv --autounmask n --with-bdeps y --changed-use --complete-graph @world"

\* main(), the full update: PackageManager::NoDryRun.update_all_packages,
\* only when updates are pending.
UpdateAllPackages ==
    /\ pc = "upgrade"
    /\ IF pending_updates
       THEN MustSucceed(WorldUpgradeCommand, "Interactive", "config_files")
       ELSE Goto("config_files") /\ UNCHANGED cmds
    /\ UNCHANGED <<fn_input, fn_result, env_user, absent, kernel_lines, rotational, files, msgs, distro, running_config, arguments, tree_age,
                   packages, idx, pending_updates, orphans, kernels, uname_id,
                   consistent, events>>

\* portage::update_config_files.
UpdateConfigFiles ==
    /\ pc = "config_files"
    /\ MustSucceed("dispatch-conf", "Interactive", "depclean")
    /\ UNCHANGED <<fn_input, fn_result, env_user, absent, kernel_lines, rotational, files, msgs, distro, running_config, arguments, tree_age,
                   packages, idx, pending_updates, orphans, kernels, uname_id,
                   consistent, events>>

\* PackageManager::DryRun.depclean: the dry run (fatal on failure) and its
\* classification, which panics on a count that is no integer.
DepcleanDryRun ==
    /\ pc = "depclean"
    /\ \E r \in ShellOutResults, output \in DepcleanOutputs :
        LET found == depclean_classify(output)
        IN  /\ cmds' = Append(cmds, Call("emerge -p --depclean", << >>, "Spinner", r, TRUE))
            /\ IF exit_if_failed(r)
               THEN Terminate(1) /\ UNCHANGED <<orphans, kernels, kernel_lines>>
               ELSE IF found.panic
               THEN Panic /\ UNCHANGED <<orphans, kernels, kernel_lines>>
               ELSE /\ orphans' = found.orphans
                    /\ kernels' = found.kernels
                    /\ kernel_lines' = KernelLines(output)
                    /\ Goto("guard")
    /\ UNCHANGED <<fn_input, fn_result, env_user, absent, rotational, files, msgs, distro, running_config, arguments, tree_age,
                   packages, idx, pending_updates, uname_id, consistent, events>>

\* linux::running_kernel: the digits of what `uname -r` printed, or the
\* empty string when it could not be run.
running_kernel(run) ==
    IF run.result.res = "Ok" THEN stripchar(run.output) ELSE << >>

\* The test on the dry run's count off by one: a count of zero passes.
orphans_found_allows_zero(orphan_count) == orphan_count >= 0

\* main(), the test on the dry run's count.
orphans_found(orphan_count) == orphan_count > 0

\* The plan main() had before line 248 was changed: a dry run that lists a
\* kernel forces the unrestricted depclean, and the running kernel is not
\* looked at.
cleanup_plan_force_clean(kernel_signal, running, cleanup) ==
    IF cleanup \/ kernel_signal # << >> THEN "AllPackages" ELSE "NoAction"

\* The plan with the test of the running kernel lost.
cleanup_plan_ignores_kernel(kernel_signal, running, cleanup) ==
    IF cleanup THEN "AllPackages" ELSE "NoAction"

\* The plan that, without --cleanup, goes on to the later steps although the
\* running kernel is listed.
cleanup_plan_falls_through(kernel_signal, running, cleanup) ==
    IF Contains(kernel_signal, running)
    THEN IF cleanup THEN "PreserveKernel" ELSE "NoAction"
    ELSE IF cleanup THEN "AllPackages" ELSE "NoAction"

\* The plan of main() with no removal at all when the running kernel is listed.
cleanup_plan_never_removes(kernel_signal, running, cleanup) ==
    IF Contains(kernel_signal, running)
    THEN "Announce"
    ELSE IF cleanup THEN "AllPackages" ELSE "NoAction"

\* The plan of main() with an unknown running kernel taken as not listed.
cleanup_plan_unknown_kernel_unlisted(kernel_signal, running, cleanup) ==
    IF running # << >> /\ Contains(kernel_signal, running)
    THEN IF cleanup THEN "PreserveKernel" ELSE "Announce"
    ELSE IF cleanup THEN "AllPackages" ELSE "NoAction"

\* main(), what it does about the orphans found: "PreserveKernel" (the
\* kernel-excluding depclean, then announce and exit 0), "Announce" (announce
\* and exit 0), "AllPackages" (the unrestricted depclean, then go on) or
\* "NoAction" (go on).
cleanup_plan(kernel_signal, running, cleanup) ==
    IF Contains(kernel_signal, running)
    THEN IF cleanup THEN "PreserveKernel" ELSE "Announce"
    ELSE IF cleanup THEN "AllPackages" ELSE "NoAction"

PreserveKernelCommand ==
    "emerge --depclean --exclude sys-kernel/gentoo-kernel-bin --exclude sys-kernel/gentoo-sources"

\* main(), the orphan cleanup guarded by the running kernel: nothing when
\* the dry run found no orphans, else the plan for the kernel the system runs.
KernelGuard ==
    /\ pc = "guard"
    /\ IF orphans_found(orphans)
       THEN \E run \in UnameRuns :
             LET plan == cleanup_plan(kernels, running_kernel(run), cleanup_requested)
                 uname == Call("uname -r", << >>, "Quiet", run.result, FALSE)
                 announced == msgs \cup
                     {"Preserving currently running kernel. Skipping cleanup",
                      "All done!!!"}
             IN  /\ uname_id' = running_kernel(run)
                 /\ CASE plan = "Announce" ->
                           /\ cmds' = Append(cmds, uname)
                           /\ msgs' = announced
                           /\ Terminate(0)
                      [] plan = "PreserveKernel" ->
                           \E r \in ShellOutResults :
                             /\ cmds' = cmds \o << uname,
                                   Call(PreserveKernelCommand, << >>, "Interactive", r, TRUE) >>
                             /\ IF exit_if_failed(r)
                                THEN Terminate(1) /\ UNCHANGED msgs
                                ELSE Terminate(0) /\ msgs' = announced
                      [] plan = "AllPackages" ->
                           \E r \in ShellOutResults :
                             /\ cmds' = cmds \o << uname,
                                   Call("emerge --depclean", << >>, "Interactive", r, TRUE) >>
                             /\ UNCHANGED msgs
                             /\ IF exit_if_failed(r)
                                THEN Terminate(1) ELSE Goto("revdep")
                      [] plan = "NoAction" ->
                           /\ cmds' = Append(cmds, uname)
                           /\ UNCHANGED msgs
                           /\ Goto("revdep")
       ELSE Goto("revdep") /\ UNCHANGED <<cmds, msgs, uname_id>>
    /\ UNCHANGED <<fn_input, fn_result, env_user, absent, kernel_lines, rotational, files, distro, running_config, arguments, tree_age, packages,
                   idx, pending_updates, orphans, kernels, consistent, events>>

\* main() without cleanup saying so and never returning.
SkipCleanup_never_returns ==
    /\ pc = "revdep"
    /\ ~cleanup_requested
    /\ msgs' = msgs \cup
           {"Cleanup is disabled. Prolonged skipping of cleanup is not advised",
            "All done!!!"}
    /\ Goto("revdep")
    /\ UNCHANGED <<fn_input, fn_result, env_user, absent, kernel_lines, rotational, cmds, files, distro, running_config, arguments, tree_age,
                   packages, idx, pending_updates, orphans, kernels, uname_id,
                   consistent, events>>

\* main() without cleanup: say so and return.
SkipCleanup ==
    /\ pc = "revdep"
    /\ ~cleanup_requested
    /\ msgs' = msgs \cup
           {"Cleanup is disabled. Prolonged skipping of cleanup is not advised",
            "All done!!!"}
    /\ Terminate(0)
    /\ UNCHANGED <<fn_input, fn_result, env_user, absent, kernel_lines, rotational, cmds, files, distro, running_config, arguments, tree_age,
                   packages, idx, pending_updates, orphans, kernels, uname_id,
                   consistent, events>>

\* main() with cleanup: the reverse-dependency dry run (fatal on failure)
\* and, when it does not find the system consistent, the rebuild (fatal on
\* failure).
RevdepRebuild ==
    /\ pc = "revdep"
    /\ cleanup_requested
    /\ \E r1 \in ShellOutResults, output \in RevdepOutputs :
        LET check == Call("revdep-rebuild -ip", << >>, "Spinner", r1, TRUE)
            found == revdep_classify(output)
        IN  IF exit_if_failed(r1)
            THEN /\ cmds' = Append(cmds, check)
                 /\ Terminate(1)
                 /\ UNCHANGED <<consistent, events>>
            ELSE /\ MayMeet(~found)
                 /\ Meet(~found)
                 /\ consistent' = found
                 /\ IF found
                    THEN /\ cmds' = Append(cmds, check)
                         /\ Goto("sanity")
                    ELSE \E r2 \in ShellOutResults :
                          /\ cmds' = cmds \o << check,
                                Call("revdep-rebuild", << >>, "Interactive", r2, TRUE) >>
                          /\ IF exit_if_failed(r2)
                             THEN Terminate(1) ELSE Goto("sanity")
    /\ UNCHANGED <<fn_input, fn_result, env_user, absent, kernel_lines, rotational, files, msgs, distro, running_config, arguments, tree_age,
                   packages, idx, pending_updates, orphans, kernels, uname_id>>

\* find_obsolete_configs followed at once by the kernel pruning.
FindObsoleteConfigs_then_kernels ==
    /\ pc = "sanity"
    /\ MustSucceed("eix-test-obsolete", "Interactive", "old_kernels")
    /\ UNCHANGED <<fn_input, fn_result, env_user, absent, kernel_lines, rotational, files, msgs, distro, running_config, arguments, tree_age,
                   packages, idx, pending_updates, orphans, kernels, uname_id,
                   consistent, events>>

\* portage::find_obsolete_configs.
FindObsoleteConfigs ==
    /\ pc = "sanity"
    /\ MustSucceed("eix-test-obsolete", "Interactive", "distfiles")
    /\ UNCHANGED <<fn_input, fn_result, env_user, absent, kernel_lines, rotational, files, msgs, distro, running_config, arguments, tree_age,
                   packages, idx, pending_updates, orphans, kernels, uname_id,
                   consistent, events>>

\* portage::clean_distfiles.
CleanDistfiles ==
    /\ pc = "distfiles"
    /\ MustSucceed("eclean -d distfiles", "Interactive", "old_kernels")
    /\ UNCHANGED <<fn_input, fn_result, env_user, absent, kernel_lines, rotational, files, msgs, distro, running_config, arguments, tree_age,
                   packages, idx, pending_updates, orphans, kernels, uname_id,
                   consistent, events>>

\* portage::clean_old_kernels.
CleanOldKernels ==
    /\ pc = "old_kernels"
    /\ MustSucceed("eclean-kernel -a", "Interactive", "trim")
    /\ UNCHANGED <<fn_input, fn_result, env_user, absent, kernel_lines, rotational, files, msgs, distro, running_config, arguments, tree_age,
                   packages, idx, pending_updates, orphans, kernels, uname_id,
                   consistent, events>>

\* main(), the end of the cleanup: linux::call_fstrim when a trim was asked
\* for (fatal on failure), then return.
TrimAndFinish ==
    /\ pc = "trim"
    /\ rotational' \in RotationalFiles
    /\ IF trim_requested
       THEN \E r \in ShellOutResults :
             /\ cmds' = Append(cmds, Call("fstrim -a", << >>, "Spinner", r, TRUE))
             /\ IF exit_if_failed(r)
                THEN Terminate(1) /\ UNCHANGED msgs
                ELSE Terminate(0) /\ msgs' = msgs \cup {"All done!!!"}
       ELSE /\ Terminate(0)
            /\ msgs' = msgs \cup {"All done!!!"}
            /\ UNCHANGED cmds
    /\ UNCHANGED <<fn_input, fn_result, env_user, absent, kernel_lines, files, distro, running_config, arguments, tree_age, packages,
                   idx, pending_updates, orphans, kernels, uname_id, consistent,
                   events>>

Next ==
    \/ CheckDistro
    \/ LoadConfig
    \/ ParseArguments
    \/ InstallDependency
    \/ ConfigureElogv
    \/ ReadOptionalPackages
    \/ InstallOptionalPackage
    \/ SyncPackageTree
    \/ UpgradePriorityPackage
    \/ GetPendingUpdates
    \/ FetchSources
    \/ CheckNews
    \/ UpdateAllPackages
    \/ UpdateConfigFiles
    \/ DepcleanDryRun
    \/ KernelGuard
    \/ SkipCleanup
    \/ RevdepRebuild
    \/ FindObsoleteConfigs
    \/ CleanDistfiles
    \/ CleanOldKernels
    \/ TrimAndFinish

Spec == Init /\ [][Next]_vars

\* The run under the assumption that main() keeps executing: every
\* subprocess it waits for exits and every read of the terminal returns, so
\* a step that can be taken is taken.
LiveSpec == Init /\ [][Next]_vars /\ WF_vars(Next)

(***************************************************************************)
(* Properties of the run, read off the command log.                        *)
(***************************************************************************)
Issued(cmd) == \E i \in 1..Len(cmds) : cmds[i].cmd = cmd

Succeeded(c) == c.res = "Ok" /\ c.code = 0

\* The run ended, with this status, in the step that issued cmds[i].
EndedAt(i, code) == i = Len(cmds) /\ pc = "exited" /\ exit_status = code

DepcleanDryRunCommand == "emerge -p --depclean"
AllPackagesCommand == "emerge --depclean"
WorldDryRunCommand == "emerge -puDv @world"

RealRemovals == {PreserveKernelCommand, AllPackagesCommand}

\* What the steps after the orphan cleanup spawn.
PostCleanupCommands ==
    {"revdep-rebuild -ip", "revdep-rebuild", "eix-test-obsolete",
     "eclean -d distfiles", "eclean-kernel -a", "fstrim -a"}

\* The depclean dry run returned its (orphans, kernels) pair to main().
DryRunReturned ==
    \E i \in 1..Len(cmds) :
        /\ cmds[i].cmd = DepcleanDryRunCommand
        /\ Succeeded(cmds[i])
        /\ ~EndedAt(i, 101)

\* main() is past the orphan cleanup (lines 233-252).
GuardDone == DryRunReturned /\ pc # "guard"

\* The dry run found orphans, the running kernel was asked for, and the
\* kernels the dry run listed contain it.
KernelAtRisk ==
    orphans > 0 /\ Issued("uname -r") /\ Contains(kernels, uname_id)

\* The removal the run issued.
Removal ==
    IF Issued(PreserveKernelCommand) THEN "PreserveKernel"
    ELSE IF Issued(AllPackagesCommand) THEN "AllPackages"
    ELSE "NoAction"

\* get_pending_updates found an empty list.
NoPendingReported == "There are no pending updates" \in msgs

\* The run ended in the detection of pending updates.
TerminatedAtDetection ==
    /\ pc = "exited"
    /\ Len(cmds) > 0
    /\ cmds[Len(cmds)].cmd = WorldDryRunCommand

(***************************************************************************)
(* C1.  When the dry run reports orphans, the kernels it lists contain the *)
(* running kernel's digits, and cleanup was not requested, the run never   *)
(* issues the unrestricted `emerge --depclean`.                            *)
(***************************************************************************)
C1_NoUnrestrictedDepcleanWhenKernelAtRisk ==
    (KernelAtRisk /\ ~cleanup_requested) => ~Issued(AllPackagesCommand)

C1_Witness ==
    /\ KernelAtRisk /\ ~cleanup_requested
    /\ kernels # << >> /\ uname_id # << >>
    /\ pc = "exited"

(***************************************************************************)
(* C2.  As stated: the decision is no removal when the count is zero, the  *)
(* kernel-excluding removal when orphans exist, the running kernel is      *)
(* listed and cleanup was not requested, and the unrestricted removal when *)
(* orphans exist and either the running kernel is not listed or cleanup    *)
(* was requested.                                                          *)
(***************************************************************************)
C2_DecisionAsStated ==
    GuardDone =>
        Removal = IF orphans = 0 THEN "NoAction"
                  ELSE IF Contains(kernels, uname_id) /\ ~cleanup_requested
                       THEN "PreserveKernel"
                       ELSE "AllPackages"

(***************************************************************************)
(* C2, amended.  The decision is no removal when the count is zero or      *)
(* cleanup was not requested, the kernel-excluding removal when orphans    *)
(* exist, the running kernel is listed and cleanup was requested, and the  *)
(* unrestricted removal when orphans exist, the running kernel is not      *)
(* listed and cleanup was requested.                                       *)
(***************************************************************************)
C2_Decision ==
    GuardDone =>
        Removal = IF orphans > 0 /\ cleanup_requested
                  THEN IF Contains(kernels, uname_id)
                       THEN "PreserveKernel"
                       ELSE "AllPackages"
                  ELSE "NoAction"

C2_Witness ==
    /\ GuardDone /\ KernelAtRisk /\ cleanup_requested
    /\ Removal = "PreserveKernel"

(***************************************************************************)
(* C3.  When the dry run reports orphans, the running kernel is listed and *)
(* cleanup was not requested, the run announces that it preserves the      *)
(* kernel and exits with status 0, having issued no removal, no reverse-   *)
(* dependency check or rebuild, no sanity check, no pruning and no trim.   *)
(***************************************************************************)
C3_PreserveAnnouncedAndExit ==
    (KernelAtRisk /\ ~cleanup_requested) =>
        /\ pc = "exited" /\ exit_status = 0
        /\ "Preserving currently running kernel. Skipping cleanup" \in msgs
        /\ \A c \in RealRemovals \cup PostCleanupCommands : ~Issued(c)

C3_Witness ==
    /\ KernelAtRisk /\ ~cleanup_requested
    /\ "Preserving currently running kernel. Skipping cleanup" \in msgs
    /\ cmds[Len(cmds)].cmd = "uname -r"
    /\ exit_status = 0

(***************************************************************************)
(* C4.  Every removal the run issues comes after a dry run                 *)
(* `emerge -p --depclean` of the same run that completed with exit status  *)
(* 0 and reported a count above zero.                                      *)
(***************************************************************************)
C4_RemovalAfterDryRun ==
    \A i \in 1..Len(cmds) :
        cmds[i].cmd \in RealRemovals =>
            /\ \E j \in 1..(i - 1) :
                   cmds[j].cmd = DepcleanDryRunCommand /\ Succeeded(cmds[j])
            /\ orphans > 0

C4_Witness ==
    /\ Issued(AllPackagesCommand)
    /\ Issued(DepcleanDryRunCommand)
    /\ orphans > 0

(***************************************************************************)
(* C5.  As stated: when a command of the workflow cannot be spawned, the   *)
(* run ends there with status 1 and issues nothing after it.  (The editor  *)
(* that setup starts is not a step of the workflow.)                       *)
(***************************************************************************)
C5_SpawnErrorEndsRun ==
    \A i \in 1..Len(cmds) :
        (cmds[i].res = "Err" /\ cmds[i].cmd # "vi ") => EndedAt(i, 1)

(***************************************************************************)
(* C6.  A result passed through exit_if_failed ends the run with status 1  *)
(* when it is Err or carries a non-zero exit status; when it is Ok with    *)
(* status 0 the run does not end with status 1 there.                      *)
(***************************************************************************)
C6_ExitIfFailed ==
    \A i \in 1..Len(cmds) :
        cmds[i].checked =>
            IF Succeeded(cmds[i]) THEN ~EndedAt(i, 1) ELSE EndedAt(i, 1)

C6_Witness ==
    \E i, j \in 1..Len(cmds) :
        /\ i < j
        /\ cmds[i].checked /\ Succeeded(cmds[i])
        /\ cmds[j].checked /\ cmds[j].res = "Ok" /\ cmds[j].code # 0
        /\ EndedAt(j, 1)

(***************************************************************************)
(* C7.  As stated: a non-zero exit status of `equery l`, of `eix -u` or of *)
(* `revdep-rebuild -ip` never ends the run with status 1.                  *)
(***************************************************************************)
C7_SignalStatusNeverFatal ==
    \A i \in 1..Len(cmds) :
        ( /\ cmds[i].cmd \in {"equery l ", "eix -u ", "revdep-rebuild -ip"}
          /\ cmds[i].res = "Ok" /\ cmds[i].code # 0 )
        => ~EndedAt(i, 1)

(***************************************************************************)
(* C8.  When the detection of pending updates finds an empty list and      *)
(* neither force nor cleanup is set, the run exits with status 0 right     *)
(* after the detection: the @world dry run is the last command it issued.  *)
(***************************************************************************)
C8_NothingToDoExit ==
    ( /\ NoPendingReported
      /\ ~getflag(arguments, L_force)
      /\ ~cleanup_requested )
    => (TerminatedAtDetection /\ exit_status = 0)

C8_Witness ==
    /\ NoPendingReported
    /\ ~getflag(arguments, L_force)
    /\ ~cleanup_requested
    /\ TerminatedAtDetection

(***************************************************************************)
(* C9.  As stated: with an empty pending list and cleanup unset, a run in  *)
(* which force is set does not end in the detection of pending updates.    *)
(***************************************************************************)
C9_ForceContinues ==
    ( /\ NoPendingReported
      /\ getflag(arguments, L_force)
      /\ ~cleanup_requested )
    => ~TerminatedAtDetection

(***************************************************************************)
(* C9, amended.  The early exit does not look at force: with an empty      *)
(* pending list and cleanup unset, a run in which force is set ends in the *)
(* detection of pending updates with status 0 all the same.                *)
(***************************************************************************)
C9_ForceDoesNotContinue ==
    ( /\ NoPendingReported
      /\ getflag(arguments, L_force)
      /\ ~cleanup_requested )
    => (TerminatedAtDetection /\ exit_status = 0)

C9_Witness ==
    /\ NoPendingReported
    /\ getflag(arguments, L_force)
    /\ ~cleanup_requested
    /\ pc = "exited" /\ exit_status = 0
    /\ Issued("eix-sync")

(***************************************************************************)
(* C10.  When what follows the first '=' on the first line of              *)
(* /etc/os-release is not "Gentoo", the run exits with status 1 having     *)
(* spawned nothing, loaded no configuration and written no file.           *)
(***************************************************************************)
C10_NotGentooExit ==
    (distro.kind \in {"Ok", "Err"} /\ distro.val # <<"G", "e", "n", "t", "o", "o">>) =>
        /\ pc = "exited" /\ exit_status = 1
        /\ cmds = << >>
        /\ files = {}
        /\ running_config = NoConfig
        /\ arguments = NoSwitches

C10_Witness ==
    /\ distro.kind = "Err"
    /\ distro.val = <<"A", "r", "c", "h">>
    /\ exit_status = 1

(***************************************************************************)
(* C11.  As stated: a run whose USER is unset or not "root" spawns no      *)
(* subprocess, creates or writes no file, and exits with a status that is  *)
(* not zero, also when the configuration file does not exist.              *)
(***************************************************************************)
Unprivileged == ~env_user.set \/ env_user.val # <<"r", "o", "o", "t">>

C11_UnprivilegedRunMutatesNothing ==
    Unprivileged =>
        /\ cmds = << >>
        /\ files = {}
        /\ pc = "exited" => exit_status # 0

(***************************************************************************)
(* C12.  The step taken at the sync: with force set `eix-sync` is run      *)
(* whatever the timestamp; with force unset it is skipped when the         *)
(* timestamp is less than 24 hours old and run when it is more than 24     *)
(* hours old; a sync that fails ends the run with status 1.                *)
(***************************************************************************)
C12_ConditionalSync ==
    [][ pc = "sync" =>
          LET synced == /\ Len(cmds') = Len(cmds) + 1
                        /\ cmds'[Len(cmds')].cmd = "eix-sync"
              force == getflag(arguments, L_force)
          IN  /\ force => synced
              /\ (~force /\ tree_age' >= 0 /\ tree_age' < 24 * 60 * 60) =>
                     (cmds' = cmds /\ pc' = "priority")
              /\ (~force /\ tree_age' > 24 * 60 * 60) => synced
              /\ (synced /\ ~Succeeded(cmds'[Len(cmds')])) =>
                     (pc' = "exited" /\ exit_status' = 1)
              /\ (synced /\ Succeeded(cmds'[Len(cmds')])) => pc' = "priority"
      ]_vars

C12_Witness ==
    /\ ~getflag(arguments, L_force)
    /\ tree_age = 86340
    /\ pc = "priority"
    /\ ~Issued("eix-sync")

(***************************************************************************)
(* The process runner and the classifiers applied on their own: the        *)
(* arguments are drawn in the initial state and one step applies the       *)
(* function they are for.                                                  *)
(***************************************************************************)
\* The longest captured text, in lines.
MaxLines == 2

\* Command lines of at most MaxArgs arguments after the program name.
MaxArgs == 2

\* Every line is ended by a line break, as the tools print them.
RECURSIVE JoinLines(_)
JoinLines(ls) ==
    IF ls = << >> THEN << >> ELSE Head(ls) \o <<"\n">> \o JoinLines(Tail(ls))

TextsOf(alphabet) ==
    { JoinLines(ls) : ls \in UNION { [1..n -> alphabet] : n \in 0..MaxLines } }

\* Lines of `emerge -puDv @world`.
PendingLines ==
    { <<"[", "e", "b", "u", "i", "l", "d", " ", " ", " ", "U", " ", "]", " ", "a", "/", "b", "-", "1", " ", "[", "0", "]">>, <<"[", "e", "b", "u", "i", "l", "d", " ", "N", " ", "]", " ", "c", "/", "d", "-", "2">>, <<"[", "e", "b", "u", "i", "l", "d", " ", " ", "R", " ", "]", " ", " ", " ", "e", "/", "f", "-", "3", " ", "x">>,
      <<"[", "e", "b", "u", "i", "l", "d">>, <<"[", "e", "b", "u", "i", "l", "d", " ", "N", " ", "]", " ">>, <<"T", "o", "t", "a", "l", ":", " ", "2", " ", "p", "a", "c", "k", "a", "g", "e", "s">>, <<" ", "[", "e", "b", "u", "i", "l", "d", " ", "N", " ", "]", " ", "g", "/", "h", "-", "4">>,
      << >> }

\* Lines of `emerge -p --depclean`.
DepcleanLines ==
    { <<"N", "u", "m", "b", "e", "r", " ", "t", "o", " ", "r", "e", "m", "o", "v", "e", ":", " ", "3">>, <<"N", "u", "m", "b", "e", "r", " ", "t", "o", " ", "r", "e", "m", "o", "v", "e", ":", " ", " ", " ", " ", " ", "0">>, <<"N", "u", "m", "b", "e", "r", " ", "t", "o", " ", "r", "e", "m", "o", "v", "e", ":", " ", "x">>,
      <<"N", "u", "m", "b", "e", "r", " ", "t", "o", " ", "r", "e", "m", "o", "v", "e">>, <<"N", "u", "m", "b", "e", "r", " ", "t", "o", " ", "r", "e", "m", "o", "v", "e", ":", " ", "-", "2", " ", "s", "o", "o", "n">>, <<" ", "N", "u", "m", "b", "e", "r", " ", "t", "o", " ", "r", "e", "m", "o", "v", "e", ":", " ", "5">>,
      <<" ", "k", "/", "g", "e", "n", "t", "o", "o", "-", "k", "e", "r", "n", "e", "l", "-", "6", ".", "1">>, <<" ", "a", "/", "b", "-", "1", ".", "2">>, << >> }

\* Lines of `revdep-rebuild -ip`.
RevdepLines ==
    { <<"Y", "o", "u", "r", " ", "s", "y", "s", "t", "e", "m", " ", "i", "s", " ", "c", "o", "n", "s", "i", "s", "t", "e", "n", "t">>, <<" ", "Y", "o", "u", "r", " ", "s", "y", "s", "t", "e", "m", " ", "i", "s", " ", "c", "o", "n", "s", "i", "s", "t", "e", "n", "t">>,
      <<"Y", "o", "u", "r", " ", "s", "y", "s", "t", "e", "m", " ", "i", "s", " ", "c", "o", "n", "s", "i", "s", "t", "e", "n", "t", "l", "y", " ", "b", "r", "o", "k", "e", "n">>, <<"Y", "o", "u", "r", " ", "s", "y", "s", "t", "e", "m">>,
      <<"b", "r", "o", "k", "e", "n", " ", "a", "/", "b">>, << >> }

ExitCodes == {0, 1, 2, 255}

ProcessOutcomes ==
    {CouldNotSpawn, Signaled} \cup
    { ExitedWith(code, out, err) :
        code \in ExitCodes, out \in {<< >>, <<"o", "u", "t", "\n">>}, err \in {<< >>, <<"e", "r", "r", "\n">>} }

CommandLines == { <<"u", "n", "a", "m", "e", " ", "-", "r">>, <<" ">> }

ExecuteInputs ==
    { [fn |-> "execute", mode |-> mode, command_line |-> c, outcome |-> o] :
        mode \in OsCall, c \in CommandLines, o \in ProcessOutcomes }

\* What `eselect news count new` may print.
NewsTexts ==
    { << >>, <<"\n">>, <<"0", "\n">>, <<"2", "\n">>, <<"1", "2", "\n">>, <<" ", "3", " ">>, <<"0", "0", "7", "\n">>,
      <<"+", "4", "\n">>, <<"-", "1", "\n">>, <<"x">>, <<"3", "x", "\n">>, <<"1", " ", "2", "\n">> }

NewsInputs == { [fn |-> "check_news", text |-> t] : t \in NewsTexts }

\* Arguments of a command line: single shorts, clusters, longs, the help and
\* version requests, unknown shorts and longs, and a short name behind two
\* dashes.
ArgSamples ==
    { <<"-", "c">>, <<"-", "f">>, <<"-", "o", "b", "f">>, <<"-", "c", "t">>, <<"-", "o", "h">>, <<"-", "-", "c", "l", "e", "a", "n", "u", "p">>,
      <<"-", "-", "o", "p", "t", "i", "o", "n", "a", "l">>, <<"-", "-", "b", "a", "c", "k", "g", "r", "o", "u", "n", "d">>, <<"-", "h">>, <<"-", "-", "v", "e", "r", "s", "i", "o", "n">>, <<"-", "x">>,
      <<"-", "c", "x">>, <<"-", "-", "b", "o", "g", "u", "s">>, <<"-", "-", "f">> }

\* env::args: the program name, then the arguments.
ParseInputs ==
    { [fn |-> "parse", args |-> << <<"g", "e", "n", "t", "u", "p">> >> \o list] :
        list \in UNION { [1..n -> ArgSamples] : n \in 0..MaxArgs } }

\* Ages in seconds of the metadata timestamp: in the future, fresh, around
\* the 24 hours, and older.
AgeInputs ==
    { [fn |-> "too_recent", age |-> a] :
        a \in {0 - 60, 0, 3600, 86340, 86399, 86400, 86401, 86460, 172800} }

\* PackageManager::depclean (DryRun): the test that takes a line of the dry
\* run for a kernel package.
is_kernel_line(line) ==
    \/ Contains(line, <<"g", "e", "n", "t", "o", "o", "-", "k", "e", "r", "n", "e", "l">>)
    \/ Contains(line, <<"g", "e", "n", "t", "o", "o", "-", "s", "o", "u", "r", "c", "e", "s">>)

\* PackageManager::depclean (PreserveKernel): the package names its command
\* line hands to --exclude.
PreserveKernelExcludes ==
    LET words == SplitWhitespace(<<"e", "m", "e", "r", "g", "e", " ", "-", "-", "d", "e", "p", "c", "l", "e", "a", "n", " ", "-", "-", "e", "x", "c", "l", "u", "d", "e", " ", "s", "y", "s", "-", "k", "e", "r", "n", "e", "l", "/", "g", "e", "n", "t", "o", "o", "-", "k", "e", "r", "n", "e", "l", "-", "b", "i", "n", " ", "-", "-", "e", "x", "c", "l", "u", "d", "e", " ", "s", "y", "s", "-", "k", "e", "r", "n", "e", "l", "/", "g", "e", "n", "t", "o", "o", "-", "s", "o", "u", "r", "c", "e", "s">>)
    IN  { words[i + 1] : i \in { k \in 1..(Len(words) - 1) : words[k] = <<"-", "-", "e", "x", "c", "l", "u", "d", "e">> } }

\* The kernel-excluding depclean removes an orphan unless --exclude names
\* its package.
preserve_kernel_removes(package) == package \notin PreserveKernelExcludes

\* Orphaned packages the dry run may list: name and version.
OrphanSamples ==
    { [package |-> <<"s", "y", "s", "-", "k", "e", "r", "n", "e", "l", "/", "g", "e", "n", "t", "o", "o", "-", "k", "e", "r", "n", "e", "l", "-", "b", "i", "n">>, version |-> <<"6", ".", "1", ".", "1", "2">>],
      [package |-> <<"s", "y", "s", "-", "k", "e", "r", "n", "e", "l", "/", "g", "e", "n", "t", "o", "o", "-", "s", "o", "u", "r", "c", "e", "s">>, version |-> <<"6", ".", "1", ".", "1", "2">>],
      [package |-> <<"s", "y", "s", "-", "k", "e", "r", "n", "e", "l", "/", "g", "e", "n", "t", "o", "o", "-", "k", "e", "r", "n", "e", "l">>, version |-> <<"6", ".", "1", ".", "1", "2">>],
      [package |-> <<"s", "y", "s", "-", "k", "e", "r", "n", "e", "l", "/", "v", "a", "n", "i", "l", "l", "a", "-", "s", "o", "u", "r", "c", "e", "s">>, version |-> <<"6", ".", "1">>],
      [package |-> <<"a", "p", "p", "-", "m", "i", "s", "c", "/", "t", "m", "u", "x">>, version |-> <<"3", ".", "3">> ] }

OrphanInputs ==
    { [fn |-> "preserve_kernel", package |-> o.package,
       line |-> <<" ">> \o o.package \o <<"-">> \o o.version] : o \in OrphanSamples }

ClassifierInputs(fn, alphabet) ==
    { [fn |-> fn, text |-> t] : t \in TextsOf(alphabet) }

FnInputs ==
    ExecuteInputs
    \cup ClassifierInputs("pending_classify", PendingLines)
    \cup ClassifierInputs("depclean_classify", DepcleanLines)
    \cup ClassifierInputs("revdep_classify", RevdepLines)
    \cup NewsInputs
    \cup ParseInputs
    \cup AgeInputs
    \cup OrphanInputs

FnInit ==
    /\ RunInit
    /\ fn_input \in FnInputs
    /\ fn_result = NoResult

Returns(fn, val) ==
    /\ fn_input.fn = fn
    /\ ~fn_result.done
    /\ fn_result' = [done |-> TRUE, val |-> val]
    /\ UNCHANGED <<fn_input, run_vars>>

\* OsCall::execute.
Execute ==
    /\ fn_input.fn = "execute"
    /\ Returns("execute",
               execute(fn_input.mode, fn_input.command_line, fn_input.outcome))

\* get_pending_updates on the captured text: the tokens, false when there
\* is none, and how the listing of the tokens on a terminal ends ("none"
\* when nothing is listed).
ClassifyPending ==
    /\ fn_input.fn = "pending_classify"
    /\ LET tokens == pending_classify(fn_input.text)
       IN  Returns("pending_classify",
                   [tokens |-> tokens, pending |-> Len(tokens) # 0,
                    listed |-> IF Len(tokens) = 0 THEN "none"
                               ELSE package_list(tokens, TRUE)])

\* PackageManager::DryRun.depclean on the captured text.
ClassifyOrphans ==
    /\ fn_input.fn = "depclean_classify"
    /\ Returns("depclean_classify", depclean_classify(fn_input.text))

\* PackageManager::DryRun.revdep_rebuild on the captured text.
ClassifyRevdep ==
    /\ fn_input.fn = "revdep_classify"
    /\ Returns("revdep_classify", revdep_classify(fn_input.text))

\* check_news on the captured text: the count, and whether the news is read.
CountNews ==
    /\ fn_input.fn = "check_news"
    /\ LET count == news_count(fn_input.text)
       IN  Returns("check_news", [count |-> count, read |-> news_to_read(count)])

\* Search::parse on a command line, under the USER of the environment.
ParseCommandLine ==
    /\ fn_input.fn = "parse"
    /\ Returns("parse", parse(env_user, fn_input.args))

\* portage::too_recent on the age of the timestamp.
TooRecent ==
    /\ fn_input.fn = "too_recent"
    /\ Returns("too_recent", too_recent(fn_input.age))

\* An orphan as the dry run classifies its line and as the kernel-excluding
\* depclean treats its package.
PreserveKernelDepclean ==
    /\ fn_input.fn = "preserve_kernel"
    /\ Returns("preserve_kernel",
               [kernel |-> is_kernel_line(fn_input.line),
                removed |-> preserve_kernel_removes(fn_input.package)])

FnNext ==
    \/ Execute
    \/ ClassifyPending
    \/ ClassifyOrphans
    \/ ClassifyRevdep
    \/ CountNews
    \/ ParseCommandLine
    \/ TooRecent
    \/ PreserveKernelDepclean

FnSpec == FnInit /\ [][FnNext]_vars

Returned(fn) == fn_input.fn = fn /\ fn_result.done

\* The lines of a text that start with a marker, in order.
MarkerLines(text, marker) ==
    SelectSeq(Lines(text), LAMBDA l : StartsWith(l, marker))

EbuildLines == MarkerLines(fn_input.text, <<"[", "e", "b", "u", "i", "l", "d">>)

WellFormedPending ==
    \A i \in 1..Len(EbuildLines) :
        /\ Len(Split(EbuildLines[i], "]")) >= 2
        /\ SplitWhitespace(Split(EbuildLines[i], "]")[2]) # << >>

C14_PendingTokens ==
    (Returned("pending_classify") /\ WellFormedPending) =>
        /\ Len(fn_result.val.tokens) = Len(EbuildLines)
        /\ \A i \in 1..Len(EbuildLines) :
              fn_result.val.tokens[i] =
                  SplitWhitespace(Split(EbuildLines[i], "]")[2])[1]
        /\ Len(EbuildLines) = 0 => ~fn_result.val.pending

C14_Witness ==
    /\ Returned("pending_classify") /\ WellFormedPending
    /\ Len(EbuildLines) = 2
    /\ fn_result.val.tokens = << <<"c", "/", "d", "-", "2">>, <<"a", "/", "b", "-", "1">> >>

(***************************************************************************)
(* C15.  The orphan classifier returns the integer the fourth word of the  *)
(* first line starting with "Number to remove" writes, and 0 for a text    *)
(* without such a line.                                                    *)
(***************************************************************************)
CountLines == MarkerLines(fn_input.text, <<"N", "u", "m", "b", "e", "r", " ", "t", "o", " ", "r", "e", "m", "o", "v", "e">>)

CountWords == SplitWhitespace(CountLines[1])

C15_OrphanCount ==
    Returned("depclean_classify") =>
        /\ CountLines = << >> =>
              (~fn_result.val.panic /\ fn_result.val.orphans = 0)
        /\ ( /\ CountLines # << >>
             /\ Len(CountWords) >= 4
             /\ ParseI32(CountWords[4]).ok ) =>
              /\ ~fn_result.val.panic
              /\ fn_result.val.orphans = ParseI32(CountWords[4]).val

C15_Witness ==
    /\ Returned("depclean_classify")
    /\ Len(CountLines) = 2
    /\ CountLines[1] = <<"N", "u", "m", "b", "e", "r", " ", "t", "o", " ", "r", "e", "m", "o", "v", "e", ":", " ", "-", "2", " ", "s", "o", "o", "n">>
    /\ fn_result.val.orphans = 0 - 2

(***************************************************************************)
(* C16.  As stated: the orphan classifier never panics; on a "Number to    *)
(* remove" line whose fourth word is no integer or that has fewer than     *)
(* four words it returns count 0.                                          *)
(***************************************************************************)
C16_OrphanClassifierNeverPanics ==
    Returned("depclean_classify") =>
        /\ ~fn_result.val.panic
        /\ ( /\ CountLines # << >>
             /\ (Len(CountWords) < 4 \/ ~ParseI32(CountWords[4]).ok) ) =>
              fn_result.val.orphans = 0

(***************************************************************************)
(* C17.  The reverse-dependency classifier reports consistent exactly when *)
(* "Your system is consistent" stands at the start of the captured text or *)
(* right after one of its line breaks.                                     *)
(***************************************************************************)
C17_RevdepConsistent ==
    Returned("revdep_classify") =>
        ( fn_result.val <=>
            Contains(<<"\n">> \o fn_input.text,
                     <<"\n">> \o <<"Y", "o", "u", "r", " ", "s", "y", "s", "t", "e", "m", " ", "i", "s", " ", "c", "o", "n", "s", "i", "s", "t", "e", "n", "t">>) )

C17_Witness ==
    /\ Returned("revdep_classify")
    /\ fn_result.val
    /\ ~StartsWith(fn_input.text, <<"Y", "o", "u", "r", " ", "s", "y", "s", "t", "e", "m", " ", "i", "s", " ", "c", "o", "n", "s", "i", "s", "t", "e", "n", "t">>)

(***************************************************************************)
(* C18.  As stated: `revdep-rebuild` is issued only after a dry run that   *)
(* did not find the system consistent, and only when the operator          *)
(* confirmed the rebuild or the unattended flag is set.                    *)
(***************************************************************************)
\* main() asks the operator nothing between the dry run and the rebuild
\* (main.rs:257-258): no run holds a confirmation of the rebuild.
RebuildConfirmed == FALSE

C18_RebuildOnlyWhenConfirmed ==
    \A i \in 1..Len(cmds) :
        cmds[i].cmd = "revdep-rebuild" =>
            /\ i > 1 /\ cmds[i - 1].cmd = "revdep-rebuild -ip"
            /\ ~consistent
            /\ RebuildConfirmed \/ getflag(arguments, <<"u", "n", "a", "t", "t", "e", "n", "d", "e", "d">>)

(***************************************************************************)
(* C19.  As stated: the step after the orphan cleanup issues the           *)
(* reverse-dependency dry run whether or not cleanup was requested, and    *)
(* the step after it issues the obsolete-configuration checker, whose      *)
(* failure ends the run with status 1.                                     *)
(***************************************************************************)
IssuesNext(cmd) ==
    Len(cmds') > Len(cmds) /\ cmds'[Len(cmds) + 1].cmd = cmd

CheckerStep ==
    pc = "sanity" =>
        /\ IssuesNext("eix-test-obsolete")
        /\ IF Succeeded(cmds'[Len(cmds')])
           THEN pc' = "distfiles"
           ELSE pc' = "exited" /\ exit_status' = 1

CleanupAsked ==
    getflag(arguments, L_cleanup) \/ running_config.cleanup_default

C20_UpgradeAll ==
    \A i \in 1..Len(cmds) :
        cmds[i].cmd = WorldUpgradeCommand =>
            /\ cmds[i].mode = "Interactive"
            /\ pending_updates
            /\ \E j \in 1..(i - 1) :
                   cmds[j].cmd = WorldDryRunCommand /\ cmds[j].res = "Ok"
            /\ ~Succeeded(cmds[i]) => EndedAt(i, 1)

C20_Witness ==
    \E i \in 1..Len(cmds) :
        /\ cmds[i].cmd = WorldUpgradeCommand
        /\ cmds[i].res = "Ok" /\ cmds[i].code # 0
        /\ EndedAt(i, 1)

(***************************************************************************)
(* C21.  Unless background fetch was requested, the fetch commands of a    *)
(* run are one per pending package, in the order of the pending list, all  *)
(* of them issued before the @world upgrade; a fetch that fails ends the   *)
(* run with status 1, so no fetch follows it.  When background fetch was   *)
(* requested no fetch command is issued.                                   *)
(***************************************************************************)
IsFetch(c) == c.cmd = FetchCommand

Fetches == SelectSeq(cmds, IsFetch)

BackgroundAsked ==
    getflag(arguments, L_background) \/ running_config.background_default

C21_FetchPerPendingPackage ==
    /\ BackgroundAsked => Fetches = << >>
    /\ Fetches # << >> =>
          /\ Len(Fetches) <= Len(packages)
          /\ \A k \in 1..Len(Fetches) : Fetches[k].arg = packages[k]
          /\ \A k \in 1..(Len(Fetches) - 1) : Succeeded(Fetches[k])
    /\ \A i \in 1..Len(cmds) :
          /\ (IsFetch(cmds[i]) /\ ~Succeeded(cmds[i])) => EndedAt(i, 1)
          /\ (cmds[i].cmd = WorldUpgradeCommand /\ ~BackgroundAsked) =>
                /\ Len(Fetches) = Len(packages)
                /\ Len(packages) > 0
                /\ \A j \in 1..Len(cmds) : IsFetch(cmds[j]) => j < i

C21_Witness ==
    /\ ~BackgroundAsked
    /\ Len(Fetches) = 2
    /\ Fetches[1].arg # Fetches[2].arg
    /\ Issued(WorldUpgradeCommand)

(***************************************************************************)
(* C22.  The distfile pruning `eclean -d distfiles` and the kernel pruning *)
(* `eclean-kernel -a` are issued only in a run where cleanup was requested *)
(* (flag or configured default), each at most once, and the kernel pruning *)
(* only after the distfile pruning has succeeded.                          *)
(***************************************************************************)
DistfilesCommand == "eclean -d distfiles"

OldKernelsCommand == "eclean-kernel -a"

C22_PruningOnlyWithCleanup ==
    /\ (Issued(DistfilesCommand) \/ Issued(OldKernelsCommand)) => CleanupAsked
    /\ \A i \in 1..Len(cmds) :
          cmds[i].cmd = OldKernelsCommand =>
              \E j \in 1..(i - 1) :
                  cmds[j].cmd = DistfilesCommand /\ Succeeded(cmds[j])
    /\ \A i, j \in 1..Len(cmds) :
          (cmds[i].cmd = cmds[j].cmd
             /\ cmds[i].cmd \in {DistfilesCommand, OldKernelsCommand}) => i = j

C22_Witness ==
    /\ CleanupAsked
    /\ Issued(DistfilesCommand)
    /\ Issued(OldKernelsCommand)

(***************************************************************************)
(* C23.  `fstrim -a` is issued only in a run where a trim was requested    *)
(* (flag or configured default) and the rotational-storage check reports   *)
(* non-rotational media; it is never issued on rotational media or when no *)
(* trim was requested.                                                     *)
(***************************************************************************)
TrimCommand == "fstrim -a"

TrimAsked == getflag(arguments, L_trim) \/ running_config.trim_default

NonRotational ==
    /\ ~is_rotational(rotational).panic
    /\ is_rotational(rotational).val = 0

C23_TrimOnlyOnNonRotational ==
    Issued(TrimCommand) => (TrimAsked /\ NonRotational)

(***************************************************************************)
(* C24.  As stated: no command is attempted twice in a run, and a command  *)
(* that failed (it could not be spawned, or a step that requires success   *)
(* got a non-zero exit status) is the last command the run issues.  (The   *)
(* editor that setup starts is not a step of the workflow.)                *)
(***************************************************************************)
Failed(c) ==
    \/ c.res = "Err"
    \/ c.checked /\ c.res = "Ok" /\ c.code # 0

AttemptedOnce ==
    \A i, j \in 1..Len(cmds) :
        (cmds[i].cmd = cmds[j].cmd /\ cmds[i].arg = cmds[j].arg) => i = j

C24_NoRetryNothingAfterFailure ==
    /\ AttemptedOnce
    /\ \A i \in 1..Len(cmds) :
          (Failed(cmds[i]) /\ cmds[i].cmd # "vi ") => i = Len(cmds)

(***************************************************************************)
(* C25.  The priority packages are handled in the order sys-apps/portage,  *)
(* sys-devel/gcc.  A priority package is upgraded exactly when its         *)
(* outdated check `eix -u` exited 0, right after that check; a failed      *)
(* upgrade ends the run with status 1; the check of gcc is issued only     *)
(* after the check of portage and after any upgrade of portage completed;  *)
(* every priority command precedes the @world dry run.                     *)
(***************************************************************************)
OutdatedCheck == "eix -u "

PriorityUpgrade == "emerge --quiet -1v "

Portage == <<"s", "y", "s", "-", "a", "p", "p", "s", "/", "p", "o", "r", "t", "a", "g", "e">>

Gcc == <<"s", "y", "s", "-", "d", "e", "v", "e", "l", "/", "g", "c", "c">>

C25_PriorityPackagesInOrder ==
    \A i \in 1..Len(cmds) :
        /\ cmds[i].cmd = PriorityUpgrade =>
              /\ i > 1
              /\ cmds[i - 1].cmd = OutdatedCheck
              /\ cmds[i - 1].arg = cmds[i].arg
              /\ Succeeded(cmds[i - 1])
              /\ cmds[i].arg \in {Portage, Gcc}
              /\ ~Succeeded(cmds[i]) => EndedAt(i, 1)
        /\ (cmds[i].cmd = OutdatedCheck /\ Succeeded(cmds[i])) =>
              /\ i < Len(cmds)
              /\ cmds[i + 1].cmd = PriorityUpgrade
        /\ (cmds[i].cmd = OutdatedCheck /\ cmds[i].arg = Gcc) =>
              /\ \E j \in 1..(i - 1) :
                    cmds[j].cmd = OutdatedCheck /\ cmds[j].arg = Portage
              /\ \A j \in 1..Len(cmds) :
                    (cmds[j].cmd = PriorityUpgrade /\ cmds[j].arg = Portage) =>
                        (j < i /\ Succeeded(cmds[j]))
        /\ cmds[i].cmd \in {OutdatedCheck, PriorityUpgrade} =>
              \A j \in 1..Len(cmds) : cmds[j].cmd = WorldDryRunCommand => i < j

C25_Witness ==
    \E i, j, k \in 1..Len(cmds) :
        /\ i < j /\ j < k
        /\ cmds[i].cmd = PriorityUpgrade /\ cmds[i].arg = Portage
        /\ cmds[j].cmd = OutdatedCheck /\ cmds[j].arg = Gcc
        /\ cmds[k].cmd = WorldDryRunCommand

(***************************************************************************)
(* C26.  For each required tool (eix, gentoolkit, elogv, eclean-kernel)    *)
(* whose binary was absent, the install command `emerge --quiet -v <tool>` *)
(* is issued exactly once, and `eix-update` follows the successful install *)
(* of eix and nothing else; a failure of either ends the run with status   *)
(* 1.  No install is issued for a tool whose binary was present.  All of   *)
(* these commands precede the tree sync.                                   *)
(***************************************************************************)
InstallCommand == "emerge --quiet -v "

PostInstallCommand == "eix-update"

SyncCommand == "eix-sync"

Eix == <<"a", "p", "p", "-", "p", "o", "r", "t", "a", "g", "e", "/", "e", "i", "x">>

RequiredTools ==
    { Eix, <<"a", "p", "p", "-", "p", "o", "r", "t", "a", "g", "e", "/", "g", "e", "n", "t", "o", "o", "l", "k", "i", "t">>, <<"a", "p", "p", "-", "p", "o", "r", "t", "a", "g", "e", "/", "e", "l", "o", "g", "v">>,
      <<"a", "p", "p", "-", "a", "d", "m", "i", "n", "/", "e", "c", "l", "e", "a", "n", "-", "k", "e", "r", "n", "e", "l">> }

InstallsOf(tool) ==
    { i \in 1..Len(cmds) : cmds[i].cmd = InstallCommand /\ cmds[i].arg = tool }

C26_BootstrapInstallsAbsentTools ==
    /\ absent \subseteq RequiredTools
    /\ \A tool \in RequiredTools :
          Cardinality(InstallsOf(tool)) = IF tool \in absent THEN 1 ELSE 0
    /\ \A i \in 1..Len(cmds) :
          /\ cmds[i].cmd = InstallCommand =>
                /\ cmds[i].arg \in RequiredTools
                /\ ~Succeeded(cmds[i]) => EndedAt(i, 1)
                /\ (Succeeded(cmds[i]) /\ cmds[i].arg = Eix) =>
                      (i < Len(cmds) /\ cmds[i + 1].cmd = PostInstallCommand)
          /\ cmds[i].cmd = PostInstallCommand =>
                /\ i > 1
                /\ cmds[i - 1].cmd = InstallCommand
                /\ cmds[i - 1].arg = Eix
                /\ Succeeded(cmds[i - 1])
                /\ ~Succeeded(cmds[i]) => EndedAt(i, 1)
          /\ cmds[i].cmd \in {InstallCommand, PostInstallCommand} =>
                \A j \in 1..Len(cmds) : cmds[j].cmd = SyncCommand => i < j

C26_Witness ==
    /\ absent = {Eix}
    /\ \E i \in 1..Len(cmds) :
          /\ cmds[i].cmd = InstallCommand /\ cmds[i].arg = Eix
          /\ Succeeded(cmds[i])
          /\ Succeeded(cmds[i + 1])
    /\ Issued(SyncCommand)

(***************************************************************************)
(* C27.  check_news returns the integer written in the output once the     *)
(* whitespace around it is removed, and 0 for every output that is not a   *)
(* non-negative integer (empty, not a number, negative); with a count of   *)
(* 0 the news is neither read nor mailed.                                  *)
(***************************************************************************)
\* A string of decimal digits, with an optional '+' before it.
Unsigned(s) ==
    LET ds == IF s # << >> /\ s[1] = "+" THEN Tail(s) ELSE s
    IN  [is |-> ds # << >> /\ \A i \in 1..Len(ds) : ds[i] \in Digits,
         digits |-> ds]

\* The text without the whitespace before and after it.
Stripped(s) ==
    LET inner == { i \in 1..Len(s) : ~IsWhitespace(s[i]) }
    IN  IF inner = {} THEN << >>
        ELSE SubSeq(s, CHOOSE i \in inner : \A j \in inner : i <= j,
                       CHOOSE i \in inner : \A j \in inner : j <= i)

C27_NewsCount ==
    Returned("check_news") =>
        LET written == Unsigned(Stripped(fn_input.text))
            expected == IF written.is THEN DecimalValue(written.digits) ELSE 0
        IN  /\ fn_result.val.count = expected
            /\ fn_result.val.count = 0 => ~fn_result.val.read

C27_Witness ==
    /\ Returned("check_news")
    /\ fn_input.text = <<"1", "2", "\n">>
    /\ fn_result.val.count = 12
    /\ fn_result.val.read

(***************************************************************************)
(* C28.  As stated, for a run as root: a command line made of valid        *)
(* options only (single shorts, clustered shorts, longs, in any mix) is    *)
(* accepted and sets exactly the switches of the options it names; an      *)
(* unknown short or long option gives the usage error.  (-h, --help, -V    *)
(* and --version given as an argument of their own ask for the help or     *)
(* version text, which parse returns at once.)                             *)
(***************************************************************************)
IsLongForm(a) == Len(a) > 2 /\ a[1] = "-" /\ a[2] = "-"

IsShortForm(a) == Len(a) >= 2 /\ a[1] = "-" /\ a[2] # "-"

\* The options an argument names.
Named(a) ==
    IF IsLongForm(a)
    THEN { i \in 1..Len(arg_syntax) : arg_syntax[i].long = SubSeq(a, 3, Len(a)) }
    ELSE IF IsShortForm(a)
    THEN { i \in 1..Len(arg_syntax) :
             \E k \in 2..Len(a) : arg_syntax[i].short = << a[k] >> }
    ELSE {}

ValidOption(a) ==
    \/ IsLongForm(a) /\ Named(a) # {}
    \/ IsShortForm(a) /\ \A k \in 2..Len(a) :
                            \E i \in 1..Len(arg_syntax) : arg_syntax[i].short = << a[k] >>

AsksText(a) == a \in {<<"-", "h">>, <<"-", "-", "h", "e", "l", "p">>, <<"-", "V">>, <<"-", "-", "v", "e", "r", "s", "i", "o", "n">>}

AsRoot == env_user = User(<<"r", "o", "o", "t">>)

C28_ParseAcceptsExactlyValidOptions ==
    (Returned("parse") /\ AsRoot) =>
        LET list == Tail(fn_input.args)
            all_valid == \A k \in 1..Len(list) : ValidOption(list[k]) /\ ~AsksText(list[k])
            unknown_first ==
                \E k \in 1..Len(list) :
                    /\ ~ValidOption(list[k])
                    /\ \A j \in 1..(k - 1) : ValidOption(list[j]) /\ ~AsksText(list[j])
        IN  /\ all_valid =>
                /\ fn_result.val.ok
                /\ fn_result.val.switches =
                       [i \in 1..Len(arg_syntax) |->
                           \E k \in 1..Len(list) : i \in Named(list[k])]
            /\ unknown_first => (~fn_result.val.ok /\ fn_result.val.err = "usage")

(***************************************************************************)
(* C29.  As stated: too_recent returns true for every age of the metadata  *)
(* timestamp of at most 24 hours (86400 seconds), an age of exactly 86400  *)
(* seconds included, and false for every greater age.                      *)
(***************************************************************************)
C29_TooRecentUpToADay ==
    Returned("too_recent") => (fn_result.val <=> fn_input.age <= 86400)

(***************************************************************************)
(* C30.  As stated: when the dry run reports orphans and the digits of any *)
(* of its kernel-package lines contain the running kernel's digits, the    *)
(* run never issues the unrestricted `emerge --depclean`, however many     *)
(* kernel-package lines there are, in whatever order, with or without      *)
(* cleanup requested.                                                      *)
(***************************************************************************)
RunningKernelListed ==
    /\ orphans > 0
    /\ Issued("uname -r")
    /\ \E k \in 1..Len(kernel_lines) : Contains(kernel_lines[k], uname_id)

C30_RunningKernelOnAnyLineIsKept ==
    RunningKernelListed => ~Issued(AllPackagesCommand)

(***************************************************************************)
(* C31.  When the dry run reports orphans and the running kernel's         *)
(* identity is the empty string (`uname -r` could not be run, or printed   *)
(* no digit), the run takes the kernel-preserving path: it never issues    *)
(* the unrestricted `emerge --depclean`; with cleanup requested it issues  *)
(* the kernel-excluding removal, without it no removal; it issues none of  *)
(* the later cleanup commands.                                             *)
(***************************************************************************)
UnknownRunningKernel ==
    orphans > 0 /\ Issued("uname -r") /\ uname_id = << >>

C31_UnknownKernelIsPreserved ==
    UnknownRunningKernel =>
        /\ ~Issued(AllPackagesCommand)
        /\ Issued(PreserveKernelCommand) <=> cleanup_requested
        /\ pc = "exited"
        /\ \A c \in PostCleanupCommands : ~Issued(c)

C31_Witness ==
    /\ UnknownRunningKernel
    /\ cleanup_requested
    /\ \E i \in 1..Len(cmds) : cmds[i].cmd = "uname -r" /\ cmds[i].res = "Ok"
    /\ Issued(PreserveKernelCommand)

(***************************************************************************)
(* C32.  As stated: a package whose dry-run line the classifier takes for  *)
(* a kernel package (the line contains "gentoo-kernel" or                  *)
(* "gentoo-sources") is not removed by the kernel-excluding depclean.      *)
(***************************************************************************)
C32_RecognisedKernelsAreExcluded ==
    Returned("preserve_kernel") =>
        (fn_result.val.kernel => ~fn_result.val.removed)

(***************************************************************************)
(* C33.  As stated: when the dry run reports orphans and the kernel signal *)
(* contains the running kernel, the run ends with exit status 0 right      *)
(* after the kernel decision, having issued exactly one kernel-excluding   *)
(* depclean when cleanup was requested and none otherwise, and none of the *)
(* reverse-dependency check, sanity check, prunings and trim.              *)
(***************************************************************************)
PreserveCount ==
    Cardinality({ i \in 1..Len(cmds) : cmds[i].cmd = PreserveKernelCommand })

EndsAfterKernelDecision ==
    /\ pc = "exited"
    /\ PreserveCount = IF cleanup_requested THEN 1 ELSE 0
    /\ cmds[Len(cmds)].cmd =
           IF cleanup_requested THEN PreserveKernelCommand ELSE "uname -r"
    /\ ~Issued(AllPackagesCommand)
    /\ \A c \in PostCleanupCommands : ~Issued(c)

C33_KernelPathEndsWithZero ==
    KernelAtRisk => (EndsAfterKernelDecision /\ exit_status = 0)

(***************************************************************************)
(* C33, amended.  The same, except for the exit status: it is 1 when the   *)
(* kernel-excluding depclean, issued because cleanup was requested, fails, *)
(* and 0 otherwise.                                                        *)
(***************************************************************************)
C33_KernelPathEnds ==
    KernelAtRisk =>
        /\ EndsAfterKernelDecision
        /\ exit_status = IF cleanup_requested /\ ~Succeeded(cmds[Len(cmds)])
                         THEN 1 ELSE 0

C33_Witness ==
    /\ KernelAtRisk
    /\ kernels # << >> /\ uname_id # << >>
    /\ cleanup_requested
    /\ PreserveCount = 1
    /\ Succeeded(cmds[Len(cmds)])
    /\ exit_status = 0

(***************************************************************************)
(* C34.  As stated: OsCall::execute on a command line that names a program *)
(* returns Ok or Err for every outcome of the child, a child terminated by *)
(* a signal included; it never aborts the program.                         *)
(***************************************************************************)
C34_ExecuteAlwaysReturns ==
    (Returned("execute") /\ SplitWhitespace(fn_input.command_line) # << >>) =>
        fn_result.val.kind \in {"Ok", "Err"}

(***************************************************************************)
(* C35.  As stated: for every captured dry-run text the detection of       *)
(* pending updates, the classification and then the listing of the         *)
(* packages, completes with a boolean and does not panic, also when a line *)
(* that begins with "[ebuild" has a ']' and no package token after it.     *)
(***************************************************************************)
C35_PendingDetectionNeverPanics ==
    Returned("pending_classify") =>
        /\ fn_result.val.pending \in BOOLEAN
        /\ fn_result.val.listed # "panic"

(***************************************************************************)
(* C36.  As stated, for a run as root: when parse returns Ok, every        *)
(* argument of the command line has set the switch of an option it names,  *)
(* by a short name, by a long name, or by the text left when its dashes    *)
(* are removed; no accepted argument is ignored.                           *)
(***************************************************************************)
\* The options an argument names, however it is dashed.
NamedLoosely(a) ==
    Named(a) \cup
    { i \in 1..Len(arg_syntax) :
        \/ arg_syntax[i].short = StripDashes(a)
        \/ arg_syntax[i].long = StripDashes(a) }

C36_AcceptedArgumentsSetTheirSwitch ==
    (Returned("parse") /\ AsRoot /\ fn_result.val.ok) =>
        \A k \in 1..Len(Tail(fn_input.args)) :
            \E i \in NamedLoosely(Tail(fn_input.args)[k]) :
                fn_result.val.switches[i]

(***************************************************************************)
(* C37.  Every run terminates: when each subprocess exits, the run reaches *)
(* a process exit or the end of main() (pc = "exited").  The steps are     *)
(* visited in one fixed order, each at most once: a step of the run never  *)
(* goes back, and it stays on a step only in the loops over the required   *)
(* tools, the priority packages, the optional packages and the pending     *)
(* packages, where it moves on to the next entry of the list.              *)
(***************************************************************************)
StepOrder ==
    << "check_distro", "load_config", "parse_args", "deps", "elogv",
       "optional", "optional_check", "sync", "priority", "pending", "fetch",
       "news", "upgrade", "config_files", "depclean", "guard", "revdep",
       "sanity", "distfiles", "old_kernels", "trim", "exited" >>

Rank(step) == CHOOSE k \in 1..Len(StepOrder) : StepOrder[k] = step

\* The length of the list a loop step walks.
LoopLength(step) ==
    CASE step = "deps" -> Len(packages_to_check)
      [] step = "priority" -> Len(priority_packages)
      [] step \in {"optional_check", "fetch"} -> Len(packages)
      [] OTHER -> 0

Forward ==
    \/ Rank(pc') > Rank(pc)
    \/ /\ pc' = pc
       /\ idx' = idx + 1
       /\ idx' < LoopLength(pc)

C37_Terminates ==
    /\ <>(pc = "exited")
    /\ [][Forward]_vars

C37_Witness ==
    /\ pc = "exited"
    /\ exit_status = 0
    /\ "All done!!!" \in msgs
    /\ Len(Fetches) = 2
    /\ Issued(OldKernelsCommand)
====
